---- MODULE Spec2Model ----
(***************************************************************************)
(* Model of the ETH trend analyzer: SimpleFibAnalyzer (simple_analyzer.py) *)
(* and SimpleWebSocketHandler (websocket_handler.py).                      *)
(*                                                                         *)
(* Numbers: the program computes with Python floats.  The model computes   *)
(* with exact integers and rationals (a rational is a pair <<n, d>>, d > 0)*)
(* so a comparison is decided as the real numbers decide it.  A field of a *)
(* candle dictionary is a record [kind, val]: a number ("num"), a key that *)
(* is absent ("missing") or a value float()/int() rejects ("bad").         *)
(* Indices of candles are Python's (0-based): candle i is candles[i + 1].  *)
(***************************************************************************)
EXTENDS Integers, Sequences, FiniteSets, TLC

VARIABLES
    running,             \* SimpleWebSocketHandler.running
    connected,           \* SimpleWebSocketHandler.connected
    reconnect_attempts,  \* SimpleWebSocketHandler.reconnect_attempts
    candle_buffer,       \* SimpleWebSocketHandler.candle_buffer (deque, maxlen 1000)
    telegram_bot,        \* TRUE iff a telegram bot was handed to the handler
    pc,                  \* where the coroutine start() stands
    candle,              \* the local `candle` of a message suspended at a send
    response,            \* what the historical REST request is going to answer
    last_update,         \* SimpleFibAnalyzer.last_update (None or a clock value)
    current_analysis,    \* SimpleFibAnalyzer.current_analysis
    now,                 \* the wall clock, in minutes
    sent,                \* number of telegram notifications handed to the bot
    live,                \* history: the candles the live stream appended, in order
    failures,            \* history: returns of connect_websocket since the start
                         \* or since the last successful handshake
    event,               \* history: the last step taken and its input
    args,                \* pure-function specifications: the inputs
    ret                  \* pure-function specifications: the value returned

vars == <<running, connected, reconnect_attempts, candle_buffer, telegram_bot, pc,
          candle, response, last_update, current_analysis, now, sent, live,
          failures, event, args, ret>>

(***************************************************************************)
(* Values                                                                  *)
(***************************************************************************)
None == [kind |-> "none", val |-> 0]

Num(n) == [kind |-> "num", val |-> n]
Missing == [kind |-> "missing", val |-> 0]
Bad == [kind |-> "bad", val |-> 0]

IsNum(f) == f.kind = "num"

Abs(x) == IF x < 0 THEN -x ELSE x
Min(a, b) == IF a <= b THEN a ELSE b
Max(a, b) == IF a >= b THEN a ELSE b

\* rationals <<n, d>> with d > 0
Rat(n, d) == IF d < 0 THEN <<-n, -d>> ELSE <<n, d>>
RatLe(p, q) == p[1] * q[2] <= q[1] * p[2]
RatLt(p, q) == p[1] * q[2] < q[1] * p[2]
RatMin(p, q) == IF RatLe(p, q) THEN p ELSE q
RatMax(p, q) == IF RatLe(q, p) THEN p ELSE q

\* The last n elements of a sequence: s[-n:]
LastN(s, n) == IF Len(s) <= n THEN s ELSE SubSeq(s, Len(s) - n + 1, Len(s))

\* candles[i] for a 0-based index i
At(candles, i) == candles[i + 1]

(***************************************************************************)
(* SimpleFibAnalyzer                                                       *)
(***************************************************************************)
ANALYSIS_WINDOW == 20
UPDATE_INTERVAL == 5

\* mutant of Disqualifies: an equal neighbour does not disqualify
Disqualifies_TiesPass(isHigh, other, current) ==
    IF isHigh THEN other > current ELSE other < current

\* lines 48 and 64: the neighbour ends the candidate's scan
Disqualifies(isHigh, other, current) ==
    IF isHigh THEN other >= current ELSE other <= current

\* The inner scan `for j in range(i - lookback, i + lookforward + 1)` of
\* find_swing_points from position j on: "swing" when the loop ends with the
\* flag still set, "not" when a neighbour ties or beats the candidate (break),
\* "raise" when float(candles[j][key]) raises before that.
RECURSIVE ScanWindow(_, _, _, _, _, _)
ScanWindow(candles, key, i, j, last, isHigh) ==
    IF j > last THEN "swing"
    ELSE IF j = i THEN ScanWindow(candles, key, i, j + 1, last, isHigh)
    ELSE LET f == At(candles, j)[key]
             cur == At(candles, i)[key].val
         IN  IF ~IsNum(f) THEN "raise"
             ELSE IF Disqualifies(isHigh, f.val, cur) THEN "not"
             ELSE ScanWindow(candles, key, i, j + 1, last, isHigh)

\* Candidate i passes lines 40-41 (both float() calls succeed)
CandidateParses(candles, i) ==
    IsNum(At(candles, i).high) /\ IsNum(At(candles, i).low)

\* mutant of IsSwingHigh: the window stops one candle short
IsSwingHigh_ShortWindow(candles, i, lookback, lookforward) ==
    /\ CandidateParses(candles, i)
    /\ ScanWindow(candles, "high", i, i - lookback, i + lookforward - 1, TRUE) = "swing"
    /\ At(candles, i).timestamp.kind # "missing"

\* Candidate i is appended to swing_highs (lines 44-57)
IsSwingHigh(candles, i, lookback, lookforward) ==
    /\ CandidateParses(candles, i)
    /\ ScanWindow(candles, "high", i, i - lookback, i + lookforward, TRUE) = "swing"
    /\ At(candles, i).timestamp.kind # "missing"

\* The try block of candidate i is left by an exception before the low check
HighCheckRaises(candles, i, lookback, lookforward) ==
    \/ ~CandidateParses(candles, i)
    \/ LET r == ScanWindow(candles, "high", i, i - lookback, i + lookforward, TRUE)
       IN  \/ r = "raise"
           \/ r = "swing" /\ At(candles, i).timestamp.kind = "missing"

\* Candidate i is appended to swing_lows (lines 60-73)
IsSwingLow(candles, i, lookback, lookforward) ==
    /\ ~HighCheckRaises(candles, i, lookback, lookforward)
    /\ ScanWindow(candles, "low", i, i - lookback, i + lookforward, FALSE) = "swing"
    /\ At(candles, i).timestamp.kind # "missing"

SwingHighPoint(candles, i) ==
    [index |-> i, price |-> At(candles, i).high.val, timestamp |-> At(candles, i).timestamp]

SwingLowPoint(candles, i) ==
    [index |-> i, price |-> At(candles, i).low.val, timestamp |-> At(candles, i).timestamp]

\* mutant of Candidates: the last candidate is left out
Candidates_SkipsLast(candles, lookback, lookforward) ==
    LET search_end == Len(candles) - lookforward - 1
        n == IF search_end > lookback THEN search_end - lookback ELSE 0
    IN  [k \in 1..n |-> lookback + k - 1]

\* range(lookback, search_end) as a sequence
Candidates(candles, lookback, lookforward) ==
    LET search_end == Len(candles) - lookforward
        n == IF search_end > lookback THEN search_end - lookback ELSE 0
    IN  [k \in 1..n |-> lookback + k - 1]

find_swing_points(candles, lookback, lookforward) ==
    IF Len(candles) < lookback + lookforward + 1
    THEN [swing_highs |-> <<>>, swing_lows |-> <<>>]
    ELSE LET cand == Candidates(candles, lookback, lookforward)
             IsH(i) == IsSwingHigh(candles, i, lookback, lookforward)
             IsL(i) == IsSwingLow(candles, i, lookback, lookforward)
             hs == SelectSeq(cand, IsH)
             ls == SelectSeq(cand, IsL)
         IN  [swing_highs |-> [k \in 1..Len(hs) |-> SwingHighPoint(candles, hs[k])],
              swing_lows |-> [k \in 1..Len(ls) |-> SwingLowPoint(candles, ls[k])]]

\* float(c[key]) for every candle of a sequence succeeds
AllNum(candles, key) == \A k \in 1..Len(candles) : IsNum(candles[k][key])

\* analyze_trend_direction: [raised, direction, confidence]; confidence is a
\* rational.  raised: an exception leaves the function (KeyError, ValueError,
\* IndexError, ZeroDivisionError).
Raised == [raised |-> TRUE, direction |-> "", confidence |-> <<0, 1>>]
Verdict(direction, confidence) ==
    [raised |-> FALSE, direction |-> direction, confidence |-> confidence]

\* mutant of FallbackTrend: the change is taken from the first candle handed in
FallbackTrend_FromStart(candles) ==
    IF ~AllNum(LastN(candles, 20), "close") \/ Len(candles) = 0 THEN Raised
    ELSE LET first == candles[1].close.val
             last == candles[Len(candles)].close.val
             price_change == Rat((last - first) * 100, first)
         IN  IF first = 0 THEN Raised
             ELSE IF RatLt(<<1, 2>>, price_change) THEN Verdict("WEAK_BULLISH", <<60, 1>>)
             ELSE IF RatLt(price_change, <<-1, 2>>) THEN Verdict("WEAK_BEARISH", <<60, 1>>)
             ELSE Verdict("SIDEWAYS", <<70, 1>>)

\* mutant of FallbackTrend: a change of exactly half a percent counts as a move
FallbackTrend_NonStrict(candles) ==
    LET recent_candles == LastN(candles, 20)
    IN  IF ~AllNum(recent_candles, "close") \/ Len(recent_candles) = 0 THEN Raised
        ELSE LET first == recent_candles[1].close.val
                 last == recent_candles[Len(recent_candles)].close.val
                 price_change == Rat((last - first) * 100, first)
             IN  IF first = 0 THEN Raised
                 ELSE IF RatLe(<<1, 2>>, price_change) THEN Verdict("WEAK_BULLISH", <<60, 1>>)
                 ELSE IF RatLe(price_change, <<-1, 2>>) THEN Verdict("WEAK_BEARISH", <<60, 1>>)
                 ELSE Verdict("SIDEWAYS", <<70, 1>>)

\* lines 88-99: no swing high or no swing low
FallbackTrend(candles) ==
    LET recent_candles == LastN(candles, 20)
    IN  IF ~AllNum(recent_candles, "close") \/ Len(recent_candles) = 0 THEN Raised
        ELSE LET first == recent_candles[1].close.val
                 last == recent_candles[Len(recent_candles)].close.val
                 \* price_change = (last - first) / first * 100, as a rational
                 price_change == Rat((last - first) * 100, first)
             IN  IF first = 0 THEN Raised
                 ELSE IF RatLt(<<1, 2>>, price_change) THEN Verdict("WEAK_BULLISH", <<60, 1>>)
                 ELSE IF RatLt(price_change, <<-1, 2>>) THEN Verdict("WEAK_BEARISH", <<60, 1>>)
                 ELSE Verdict("SIDEWAYS", <<70, 1>>)

\* mutant of BreakConfidence: the distance in percent is not multiplied by 10
BreakConfidence_Unscaled(base, current, level) ==
    Rat(base * level + 100 * Abs(current - level), level)

\* base + abs(current - level) / level * 100 * 10, as a rational (level # 0)
BreakConfidence(base, current, level) ==
    Rat(base * level + 1000 * Abs(current - level), level)

\* lines 101-144: both lists are non-empty
SwingTrend(candles, swing_highs, swing_lows) ==
    LET last_swing_high == swing_highs[Len(swing_highs)]
        last_swing_low == swing_lows[Len(swing_lows)]
        current_candle == candles[Len(candles)]
    IN  IF ~(IsNum(current_candle.high) /\ IsNum(current_candle.low)
               /\ IsNum(current_candle.close))
        THEN Raised
        ELSE LET current_high == current_candle.high.val
                 current_low == current_candle.low.val
                 current_close == current_candle.close.val
                 H == last_swing_high.price
                 L == last_swing_low.price
                 broke_swing_high == current_high > H
                 broke_swing_low == current_low < L
                 swing_range == H - L
             IN  IF H = 0 \/ L = 0 THEN Raised
                 ELSE IF broke_swing_high /\ ~broke_swing_low
                 THEN Verdict("BULLISH", RatMin(<<95, 1>>, BreakConfidence(70, current_high, H)))
                 ELSE IF broke_swing_low /\ ~broke_swing_high
                 THEN Verdict("BEARISH", RatMin(<<95, 1>>, BreakConfidence(70, current_low, L)))
                 ELSE IF broke_swing_high /\ broke_swing_low
                 THEN IF last_swing_high.index > last_swing_low.index
                      THEN Verdict("BULLISH",
                                   RatMin(<<90, 1>>, BreakConfidence(60, current_high, H)))
                      ELSE Verdict("BEARISH",
                                   RatMin(<<90, 1>>, BreakConfidence(60, current_low, L)))
                 ELSE IF swing_range > 0
                 THEN \* 100 - abs((close - L) / range - 0.5) * 100
                      Verdict("SIDEWAYS",
                              RatMax(<<50, 1>>,
                                     <<200 * swing_range
                                         - 100 * Abs(2 * (current_close - L) - swing_range),
                                       2 * swing_range>>))
                 ELSE Verdict("SIDEWAYS", <<50, 1>>)

analyze_trend_direction(candles, swing_data) ==
    IF Len(swing_data.swing_highs) = 0 \/ Len(swing_data.swing_lows) = 0
    THEN FallbackTrend(candles)
    ELSE SwingTrend(candles, swing_data.swing_highs, swing_data.swing_lows)

\* mutant of analyze_trend_direction_logfazla: no minimum of 50 candles
analyze_trend_direction_logfazla_NoMinimum(candles) ==
    analyze_trend_direction(candles, find_swing_points(candles, 10, 10))

\* simple_analyzer_logfazla.py, the copy main.py imports: analyze_trend_direction
\* takes the candles only, answers INSUFFICIENT_DATA below 50 candles and
\* otherwise detects the swings itself and goes on as the other copy does
analyze_trend_direction_logfazla(candles) ==
    IF Len(candles) < 50 THEN Verdict("INSUFFICIENT_DATA", <<0, 1>>)
    ELSE analyze_trend_direction(candles, find_swing_points(candles, 10, 10))

\* The fixed level set of line 162, in thousandths
fib_levels == <<0, 236, 382, 500, 618, 786, 1000>>

\* mutant of ClosestFib: of two equally near levels the larger one is taken
ClosestFib_LastMinimal(ratio) ==
    LET dist(k) == Abs(fib_levels[k] * ratio[2] - 1000 * ratio[1])
        best == CHOOSE k \in 1..Len(fib_levels) :
                    \A m \in 1..Len(fib_levels) :
                        dist(k) < dist(m) \/ (dist(k) = dist(m) /\ k >= m)
    IN  fib_levels[best]

\* min(fib_levels, key=lambda x: abs(x - ratio)): the first minimal element
ClosestFib(ratio) ==
    LET dist(k) == Abs(fib_levels[k] * ratio[2] - 1000 * ratio[1])
        best == CHOOSE k \in 1..Len(fib_levels) :
                    \A m \in 1..Len(fib_levels) :
                        dist(k) < dist(m) \/ (dist(k) = dist(m) /\ k <= m)
    IN  fib_levels[best]

\* mutant of Clamp01: the upper clamp is missing
Clamp01_NoUpper(ratio) == RatMax(<<0, 1>>, ratio)

\* max(0, min(1, ratio))
Clamp01(ratio) == RatMax(<<0, 1>>, RatMin(<<1, 1>>, ratio))

FibError == [fib_level |-> 0, retracement_pct |-> <<0, 1>>, range_size |-> 0,
             direction |-> "error"]
FibInvalid == [fib_level |-> 0, retracement_pct |-> <<0, 1>>, range_size |-> 0,
               direction |-> "invalid"]

\* lines 149-155: one of the conversions raises
FibInputsRaise(prev_candle, current_candle) ==
    \/ ~IsNum(prev_candle.high)
    \/ ~IsNum(prev_candle.low)
    \/ prev_candle.close.kind = "missing"          \* the default of .get is evaluated
    \/ prev_candle.open.kind = "bad"
    \/ ~IsNum(prev_candle.close)
    \/ ~IsNum(current_candle.high)
    \/ ~IsNum(current_candle.low)

calculate_fibonacci_retracement(prev_candle, current_candle) ==
    IF FibInputsRaise(prev_candle, current_candle) THEN FibError
    ELSE LET prev_high == prev_candle.high.val
             prev_low == prev_candle.low.val
             prev_close == prev_candle.close.val
             prev_open == IF prev_candle.open.kind = "missing" THEN prev_close
                          ELSE prev_candle.open.val
             current_high == current_candle.high.val
             current_low == current_candle.low.val
             prev_range == prev_high - prev_low
             prev_is_bullish == prev_close > prev_open
             retracement_ratio ==
                 Clamp01(IF prev_is_bullish THEN <<prev_high - current_low, prev_range>>
                         ELSE <<current_high - prev_low, prev_range>>)
         IN  IF prev_range <= 0 THEN FibInvalid
             ELSE [fib_level |-> ClosestFib(retracement_ratio),
                   retracement_pct |-> <<retracement_ratio[1] * 100, retracement_ratio[2]>>,
                   range_size |-> prev_range,
                   direction |-> IF prev_is_bullish THEN "pullback_after_bullish"
                                 ELSE "recovery_after_bearish",
                   prev_was_bullish |-> prev_is_bullish]

\* mutant of KeptPairs: a pair is kept whatever its result
KeptPairs_NoFilter(candles) ==
    LET recent_candles == LastN(candles, ANALYSIS_WINDOW)
    IN  IF Len(candles) < ANALYSIS_WINDOW THEN <<>>
        ELSE [i \in 1..(Len(recent_candles) - 1) |-> i]

\* calculate_average_retracement, lines 190-208: the pairs that are kept
KeptPairs(candles) ==
    LET recent_candles == LastN(candles, ANALYSIS_WINDOW)
        Kept(i) == LET fib_data == calculate_fibonacci_retracement(recent_candles[i],
                                                                   recent_candles[i + 1])
                   IN  fib_data.range_size > 0 /\ fib_data.direction # "error"
    IN  IF Len(candles) < ANALYSIS_WINDOW THEN <<>>
        ELSE SelectSeq([i \in 1..(Len(recent_candles) - 1) |-> i], Kept)

\* calculate_trend_strength, lines 233-241: an exception leaves the function
\* (a conversion fails, or closes[0] is 0 in the plain float division of
\* line 241; the numpy divisions of lines 236 and 239 do not raise)
TrendStrengthRaises(candles) ==
    LET recent_candles == LastN(candles, ANALYSIS_WINDOW)
    IN  /\ Len(candles) >= ANALYSIS_WINDOW
        /\ \/ ~AllNum(recent_candles, "close")
           \/ \E k \in 1..Len(recent_candles) : recent_candles[k].volume.kind = "bad"
           \/ recent_candles[1].close.val = 0

\* round(x, 1) of a rational, in tenths (a tie goes to the even tenth)
RoundTenths(q) ==
    LET fl == (10 * q[1]) \div q[2]
        rem == 10 * q[1] - fl * q[2]
    IN  IF 2 * rem < q[2] THEN fl
        ELSE IF 2 * rem > q[2] THEN fl + 1
        ELSE IF fl % 2 = 0 THEN fl ELSE fl + 1

RECURSIVE Gcd(_, _)
Gcd(a, b) == IF b = 0 THEN a ELSE Gcd(b, a % b)

\* a rational in lowest terms
Reduced(q) ==
    LET g == Gcd(Abs(q[1]), q[2])
    IN  IF g = 0 THEN q ELSE <<q[1] \div g, q[2] \div g>>

RatAdd(p, q) == Reduced(<<p[1] * q[2] + q[1] * p[2], p[2] * q[2]>>)

\* the sum of a sequence of rationals, by halves
RECURSIVE RatSum(_)
RatSum(qs) ==
    IF Len(qs) = 0 THEN <<0, 1>>
    ELSE IF Len(qs) = 1 THEN Reduced(qs[1])
    ELSE LET h == Len(qs) \div 2
         IN  RatAdd(RatSum(SubSeq(qs, 1, h)), RatSum(SubSeq(qs, h + 1, Len(qs))))

\* lines 207-208 of calculate_average_retracement
NoRetracement ==
    [avg_retracement |-> <<0, 1>>, dominant_fib_level |-> {0}, sample_size |-> 0]

\* lines 210-218: the statistics of the pairs kept, fib_data their results
RetracementStats(fib_data) ==
    LET retracements == [k \in 1..Len(fib_data) |-> fib_data[k].retracement_pct]
        total == RatSum(retracements)
        present == {fib_data[k].fib_level : k \in 1..Len(fib_data)}
        count == [l \in present |->
                     Cardinality({k \in 1..Len(fib_data) : fib_data[k].fib_level = l})]
    IN  [avg_retracement |-> Reduced(<<total[1], total[2] * Len(fib_data)>>),
         dominant_fib_level |-> {l \in present : \A m \in present : count[l] >= count[m]},
         sample_size |-> Len(fib_data)]

\* calculate_average_retracement; avg_retracement is np.mean as a rational.
\* dominant_fib_level is max(set(fib_levels), key=fib_levels.count): the
\* first level of maximal count in the iteration order of a set of floats,
\* which the hash table decides; the field holds every level of maximal
\* count, any of which the call may return.
calculate_average_retracement(candles) ==
    IF Len(candles) < ANALYSIS_WINDOW THEN NoRetracement
    ELSE LET recent_candles == LastN(candles, ANALYSIS_WINDOW)
             kept == KeptPairs(candles)
         IN  IF kept = <<>> THEN NoRetracement
             ELSE RetracementStats(
                      [k \in 1..Len(kept) |->
                          calculate_fibonacci_retracement(recent_candles[kept[k]],
                                                          recent_candles[kept[k] + 1])])

\* floor and ceiling of a / b for b > 0
FloorDiv(a, b) == a \div b
CeilDiv(a, b) == -((-a) \div b)

RECURSIVE IsqrtIn(_, _, _)
IsqrtIn(n, lo, hi) ==
    IF lo >= hi THEN lo
    ELSE LET mid == (lo + hi + 1) \div 2
         IN  IF mid * mid <= n THEN IsqrtIn(n, mid, hi) ELSE IsqrtIn(n, lo, mid - 1)

\* the integer part of the square root of n, for 0 <= n < 2^31
Isqrt(n) == IsqrtIn(n, 0, Min(n, 46340))

\* the sum of a sequence of integers, by halves
RECURSIVE SumOf(_)
SumOf(xs) ==
    IF Len(xs) = 0 THEN 0
    ELSE IF Len(xs) = 1 THEN xs[1]
    ELSE LET h == Len(xs) \div 2
         IN  SumOf(SubSeq(xs, 1, h)) + SumOf(SubSeq(xs, h + 1, Len(xs)))

\* A float the model does not compute exactly is kept as the bracket
\* [lo, hi], in hundredths, that holds it.
Bracket(lo, hi) == [lo |-> lo, hi |-> hi]

\* line 236: np.std(closes) / np.mean(closes) * 100 for closes of sum S > 0,
\* that is 100 * sqrt(n * Q - S^2) / S with Q the sum of the squares; the
\* square root is taken to 1/k
price_volatility(closes) ==
    LET S == SumOf(closes)
        Q == SumOf([i \in 1..Len(closes) |-> closes[i] * closes[i]])
        D == Len(closes) * Q - S * S
        k == IF D <= 200000 THEN 100 ELSE IF D <= 20000000 THEN 10 ELSE 1
        r == Isqrt(D * k * k)
        exact == r * r = D * k * k
    IN  Bracket(FloorDiv(10000 * r, k * S),
                CeilDiv(10000 * (IF exact THEN r ELSE r + 1), k * S))

\* line 239: 20 * (volume_trend - 1) when volume_trend > 1, else 0, capped at
\* 20 (line 245); volume_trend is mean(last 5) / mean(last 15), a division
\* of numpy that gives nan or an infinity when the divisor is 0
volume_bonus(volumes) ==
    LET V5 == SumOf(LastN(volumes, 5))
        V15 == SumOf(LastN(volumes, 15))
        \* volume_trend - 1 = (3 * V5 - V15) / V15
        excess == Rat(3 * V5 - V15, V15)
    IN  IF Len(volumes) < 15 THEN Bracket(0, 0)
        ELSE IF V15 = 0 THEN (IF V5 > 0 THEN Bracket(2000, 2000) ELSE Bracket(0, 0))
        ELSE IF excess[1] <= 0 THEN Bracket(0, 0)
        ELSE IF excess[1] >= excess[2] THEN Bracket(2000, 2000)
        ELSE Bracket(FloorDiv(2000 * excess[1], excess[2]),
                     CeilDiv(2000 * excess[1], excess[2]))

\* lines 241-243: min(100, abs((closes[-1] - closes[0]) / closes[0] * 100) * 5)
base_strength(closes) ==
    LET first == Abs(closes[1])
        move == Abs(closes[Len(closes)] - closes[1])
    IN  IF 5 * move >= first THEN Bracket(10000, 10000)
        ELSE Bracket(FloorDiv(50000 * move, first), CeilDiv(50000 * move, first))

\* mutant of calculate_trend_strength: the min(100, ...) of line 254 is missing
calculate_trend_strength_Uncapped(candles, direction) ==
    IF Len(candles) < ANALYSIS_WINDOW THEN Bracket(0, 0)
    ELSE LET recent_candles == LastN(candles, ANALYSIS_WINDOW)
             closes == [i \in 1..Len(recent_candles) |-> recent_candles[i].close.val]
             volumes == [i \in 1..Len(recent_candles) |->
                            IF recent_candles[i].volume.kind = "missing" THEN 1
                            ELSE recent_candles[i].volume.val]
             vol == price_volatility(closes)
             volatility_penalty == Bracket(Min(5000, 2 * vol.lo), Min(5000, 2 * vol.hi))
             base == base_strength(closes)
             bonus == volume_bonus(volumes)
             strength == Bracket(
                 Max(0, base.lo - volatility_penalty.hi + bonus.lo - 1),
                 Max(0, base.hi - volatility_penalty.lo + bonus.hi + 1))
             tenths == IF direction = "SIDEWAYS" THEN 3
                       ELSE IF direction \in {"WEAK_BULLISH", "WEAK_BEARISH"} THEN 7
                       ELSE 10
         IN  Bracket(FloorDiv(tenths * strength.lo, 10), CeilDiv(tenths * strength.hi, 10))

\* calculate_trend_strength for candles that do not make it raise and whose
\* closes have a positive sum: the bracket, in hundredths, of the float
\* returned.  max, min and the comparison of line 249 are exact in floats,
\* the other operations are within a hundredth of the exact value.
calculate_trend_strength(candles, direction) ==
    IF Len(candles) < ANALYSIS_WINDOW THEN Bracket(0, 0)
    ELSE LET recent_candles == LastN(candles, ANALYSIS_WINDOW)
             closes == [i \in 1..Len(recent_candles) |-> recent_candles[i].close.val]
             volumes == [i \in 1..Len(recent_candles) |->
                            IF recent_candles[i].volume.kind = "missing" THEN 1
                            ELSE recent_candles[i].volume.val]
             vol == price_volatility(closes)
             volatility_penalty == Bracket(Min(5000, 2 * vol.lo), Min(5000, 2 * vol.hi))
             base == base_strength(closes)
             bonus == volume_bonus(volumes)
             strength == Bracket(
                 Max(0, base.lo - volatility_penalty.hi + bonus.lo - 1),
                 Max(0, base.hi - volatility_penalty.lo + bonus.hi + 1))
             tenths == IF direction = "SIDEWAYS" THEN 3
                       ELSE IF direction \in {"WEAK_BULLISH", "WEAK_BEARISH"} THEN 7
                       ELSE 10
         IN  Bracket(Min(10000, FloorDiv(tenths * strength.lo, 10)),
                     Min(10000, CeilDiv(tenths * strength.hi, 10)))

\* round(x, 0) of a float in the bracket b: the integers it may give
RoundUnits(b) == CeilDiv(b.lo - 50, 100) .. FloorDiv(b.hi + 50, 100)

Time(t) == [kind |-> "time", val |-> t]

\* mutant of should_update_analysis: the gate opens a minute early
should_update_analysis_Early(lu, t) ==
    IF lu = None THEN TRUE ELSE t - lu.val >= UPDATE_INTERVAL - 1

\* mutant of should_update_analysis: the interval must be exceeded
should_update_analysis_Strict(lu, t) ==
    IF lu = None THEN TRUE ELSE t - lu.val > UPDATE_INTERVAL

should_update_analysis(lu, t) ==
    IF lu = None THEN TRUE ELSE t - lu.val >= UPDATE_INTERVAL

EmptyAnalysis == [kind |-> "empty"]

\* The dictionary assigned at lines 285-302 and updated at lines 305-318.
\* Fields: those the model computes exactly; avg_fibonacci_retracement,
\* dominant_fib_level and trend_strength are not carried.
Snapshot(candles, swing_data, trend, t) ==
    LET current_candle == candles[Len(candles)]
        swing_highs == swing_data.swing_highs
        swing_lows == swing_data.swing_lows
        base == [kind |-> "snapshot",
                 timestamp |-> t,
                 current_price |-> current_candle.close.val,
                 current_high |-> current_candle.high.val,
                 current_low |-> current_candle.low.val,
                 direction |-> trend.direction,
                 confidence |-> RoundTenths(trend.confidence),
                 next_update_minutes |-> UPDATE_INTERVAL,
                 candles_analyzed |-> Len(candles),
                 analysis_window |-> ANALYSIS_WINDOW,
                 sample_size |-> Len(KeptPairs(candles)),
                 total_swing_highs |-> Len(swing_highs),
                 total_swing_lows |-> Len(swing_lows),
                 swing_points_found |-> FALSE]
    IN  IF Len(swing_highs) > 0 /\ Len(swing_lows) > 0
        THEN [swing_points_found |-> TRUE,
              last_swing_high |-> swing_highs[Len(swing_highs)].price,
              last_swing_low |-> swing_lows[Len(swing_lows)].price,
              swing_high_age |-> Len(candles) - 1 - swing_highs[Len(swing_highs)].index,
              swing_low_age |-> Len(candles) - 1 - swing_lows[Len(swing_lows)].index]
             @@ base
        ELSE base

\* The try block of perform_analysis (lines 265-328) is left by an exception
PipelineRaises(candles, trend) ==
    LET current_candle == candles[Len(candles)]
    IN  \/ trend.raised
        \/ TrendStrengthRaises(candles)
        \/ ~(IsNum(current_candle.close) /\ IsNum(current_candle.high)
               /\ IsNum(current_candle.low))

\* mutant of perform_analysis: last_update is stamped before the pipeline runs
perform_analysis_StampFirst(candles, lu, ca, t, t2, t3) ==
    LET unchanged(why) == [result |-> None, why |-> why, last_update |-> lu,
                           current_analysis |-> ca]
    IN  IF ~should_update_analysis(lu, t) THEN unchanged("gate")
        ELSE IF Len(candles) < ANALYSIS_WINDOW THEN unchanged("short")
        ELSE LET swing_data == find_swing_points(candles, 10, 10)
                 trend == analyze_trend_direction(candles, swing_data)
                 snap == Snapshot(candles, swing_data, trend, t2)
             IN  IF PipelineRaises(candles, trend)
                 THEN [result |-> None, why |-> "error", last_update |-> Time(t3),
                       current_analysis |-> ca]
                 ELSE [result |-> snap, why |-> "ok", last_update |-> Time(t3),
                       current_analysis |-> snap]

\* mutant of perform_analysis: the try of line 265 has no except, a fault of
\* the pipeline leaves the function as an exception
perform_analysis_NoExcept(candles, lu, ca, t, t2, t3) ==
    LET unchanged(why) == [result |-> None, why |-> why, last_update |-> lu,
                           current_analysis |-> ca]
    IN  IF ~should_update_analysis(lu, t) THEN unchanged("gate")
        ELSE IF Len(candles) < ANALYSIS_WINDOW THEN unchanged("short")
        ELSE LET swing_data == find_swing_points(candles, 10, 10)
                 trend == analyze_trend_direction(candles, swing_data)
                 snap == Snapshot(candles, swing_data, trend, t2)
             IN  IF PipelineRaises(candles, trend) THEN unchanged("raised")
                 ELSE [result |-> snap, why |-> "ok", last_update |-> Time(t3),
                       current_analysis |-> snap]

\* perform_analysis called with the analyzer in state (lu, ca); the clock reads
\* t at the gate (line 225), t2 at line 286 and t3 at line 320.
\* Gives the value returned and the analyzer's state afterwards; why is "gate",
\* "short", "error" (the except of line 330 ran) or "ok", and "raised" would
\* be an exception leaving the call.
perform_analysis(candles, lu, ca, t, t2, t3) ==
    LET unchanged(why) == [result |-> None, why |-> why, last_update |-> lu,
                           current_analysis |-> ca]
    IN  IF ~should_update_analysis(lu, t) THEN unchanged("gate")
        ELSE IF Len(candles) < ANALYSIS_WINDOW THEN unchanged("short")
        ELSE LET swing_data == find_swing_points(candles, 10, 10)
                 trend == analyze_trend_direction(candles, swing_data)
                 snap == Snapshot(candles, swing_data, trend, t2)
             IN  IF PipelineRaises(candles, trend) THEN unchanged("error")
                 ELSE [result |-> snap, why |-> "ok", last_update |-> Time(t3),
                       current_analysis |-> snap]

\* The dictionaries perform_analysis may return, all their fields carried:
\* the snapshot of the call and, lines 292-294, round(avg_retracement, 1) in
\* tenths, the dominant level and round(trend_strength, 0)
ReturnedSnapshots(candles, lu, ca, t, t2, t3) ==
    LET r == perform_analysis(candles, lu, ca, t, t2, t3)
        fib_data == calculate_average_retracement(candles)
        trend_strength == calculate_trend_strength(candles, r.result.direction)
    IN  IF r.result = None THEN {}
        ELSE { r.result @@ [avg_fibonacci_retracement |-> RoundTenths(fib_data.avg_retracement),
                            dominant_fib_level |-> d,
                            trend_strength |-> ts] :
                 d \in fib_data.dominant_fib_level, ts \in RoundUnits(trend_strength) }

\* What a first call of perform_analysis reports of the market, in either
\* copy (lines 274-276 and 290-294 of simple_analyzer.py, 327-332 and 346-350
\* of simple_analyzer_logfazla.py), `trend` being the classifier's answer:
\* direction, round(confidence, 1) in tenths and the bracket of the
\* trend_strength that round(., 0) is applied to; None when the call
\* returns None.
Assessment(candles, trend) ==
    IF Len(candles) < ANALYSIS_WINDOW THEN None
    ELSE IF PipelineRaises(candles, trend) THEN None
    ELSE [kind |-> "assessment",
          direction |-> trend.direction,
          confidence |-> RoundTenths(trend.confidence),
          trend_strength |-> calculate_trend_strength(candles, trend.direction)]

(***************************************************************************)
(* SimpleWebSocketHandler                                                  *)
(***************************************************************************)
max_reconnect_attempts == 5
maxlen == 1000

\* mutant of DequeAppend: nothing is evicted
DequeAppend_NoEvict(buf, c) == Append(buf, c)

\* deque(maxlen=1000): append and extend drop from the left
DequeAppend(buf, c) == LastN(Append(buf, c), maxlen)
DequeExtend(buf, cs) == LastN(buf \o cs, maxlen)

\* A kline of the REST response is <<openTime, open, high, low, close, volume>>;
\* a position that does not exist is Missing.
KlineRaises(kline) ==
    \/ kline[1].kind = "missing"
    \/ \E k \in 2..6 : ~IsNum(kline[k])

\* lines 58-66
KlineCandle(kline) ==
    [timestamp |-> kline[1], open |-> kline[2], high |-> kline[3], low |-> kline[4],
     close |-> kline[5], volume |-> kline[6], is_closed |-> TRUE]

\* mutant of fetch_historical_candles: each candle is stored as soon as its
\* kline is parsed
fetch_historical_candles_Partial(buf, status, klines) ==
    IF status # "ok" THEN [ok |-> FALSE, buffer |-> buf, loaded |-> <<>>]
    ELSE IF Len(klines) = 0 THEN [ok |-> FALSE, buffer |-> buf, loaded |-> <<>>]
    ELSE IF \E k \in 1..Len(klines) : KlineRaises(klines[k])
    THEN LET first == CHOOSE k \in 1..Len(klines) :
                         /\ KlineRaises(klines[k])
                         /\ \A j \in 1..(k - 1) : ~KlineRaises(klines[j])
             candles == [k \in 1..(first - 1) |-> KlineCandle(klines[k])]
         IN  [ok |-> FALSE, buffer |-> DequeExtend(buf, candles), loaded |-> candles]
    ELSE LET candles == [k \in 1..Len(klines) |-> KlineCandle(klines[k])]
         IN  [ok |-> TRUE, buffer |-> DequeExtend(buf, candles), loaded |-> candles]

\* mutant of fetch_historical_candles: an empty response counts as loaded
fetch_historical_candles_EmptyOk(buf, status, klines) ==
    IF status # "ok" THEN [ok |-> FALSE, buffer |-> buf, loaded |-> <<>>]
    ELSE IF \E k \in 1..Len(klines) : KlineRaises(klines[k])
    THEN [ok |-> FALSE, buffer |-> buf, loaded |-> <<>>]
    ELSE LET candles == [k \in 1..Len(klines) |-> KlineCandle(klines[k])]
         IN  [ok |-> TRUE, buffer |-> DequeExtend(buf, candles), loaded |-> candles]

\* fetch_historical_candles: the value returned and the buffer afterwards;
\* status is "ok" unless requests.get, raise_for_status or response.json raises
fetch_historical_candles(buf, status, klines) ==
    IF status # "ok" THEN [ok |-> FALSE, buffer |-> buf, loaded |-> <<>>]
    ELSE IF Len(klines) = 0 THEN [ok |-> FALSE, buffer |-> buf, loaded |-> <<>>]
    ELSE IF \E k \in 1..Len(klines) : KlineRaises(klines[k])
    THEN [ok |-> FALSE, buffer |-> buf, loaded |-> <<>>]
    ELSE LET candles == [k \in 1..Len(klines) |-> KlineCandle(klines[k])]
         IN  [ok |-> TRUE, buffer |-> DequeExtend(buf, candles), loaded |-> candles]

\* A websocket message: json FALSE when json.loads raises or the document has
\* no .get; k "none" when data.get('k') is falsy; x the closed flag ("absent",
\* "true", "false"); t, o, h, l, c, v the fields of the kline object.
\* mutant of MessageIgnored: the closed flag is not looked at
MessageIgnored_FlagUnchecked(msg) == ~msg.json \/ msg.k = "none"

\* lines 92-101: the message is dropped before a candle is built
MessageIgnored(msg) == ~msg.json \/ msg.k = "none" \/ msg.x # "true"

\* lines 104-112: int() or float() raises, or a key is absent
MessageRaises(msg) ==
    \E key \in {"t", "o", "h", "l", "c", "v"} : ~IsNum(msg[key])

\* What a message is, whatever the handler does with it
MessageClass(msg) ==
    IF ~msg.json THEN "garbage"
    ELSE IF msg.k = "none" THEN "no_kline"
    ELSE IF msg.x = "true" THEN "closed"
    ELSE "open"

MessageCandle(msg) ==
    [timestamp |-> msg.t, open |-> msg.o, high |-> msg.h, low |-> msg.l,
     close |-> msg.c, volume |-> msg.v, is_closed |-> TRUE]

(***************************************************************************)
(* The environment: REST responses, websocket messages, the clock          *)
(***************************************************************************)
MaxLive == 1      \* closed candles the live stream delivers
MaxTime == 5      \* the clock stops advancing here

\* A triangle wave of period 24: 12 at k = 1, 25, ...; 0 at k = 13, 37, ...
Tri(k) == Abs(((k - 1) % 24) - 12)

PriceKline(k, p, prev) ==
    <<Num(k), Num(prev), Num(Max(p, prev) + 1), Num(Min(p, prev) - 1), Num(p), Num(1)>>

WaveKlines(n) == [k \in 1..n |-> PriceKline(k, 20 + Tri(k), 20 + Tri(k - 1))]
RampKlines(n) == [k \in 1..n |-> PriceKline(k, 20 + k, 19 + k)]
ZeroKlines(n) == [k \in 1..n |-> <<Num(k), Num(0), Num(0), Num(0), Num(0), Num(0)>>]
\* a wave whose kline at position pos has a field float() rejects
BrokenKlines(n, pos) ==
    [k \in 1..n |-> IF k = pos THEN <<Num(k), Num(20), Num(21), Num(19), Bad, Num(1)>>
                    ELSE WaveKlines(n)[k]]

\* A REST response is described by its status and by the shape and the
\* number of the klines it carries.
Answer(status, shape, n) == [status |-> status, shape |-> shape, n |-> n]

\* response.json() of a described response
Klines(resp) ==
    IF resp.shape = "wave" THEN WaveKlines(resp.n)
    ELSE IF resp.shape = "ramp" THEN RampKlines(resp.n)
    ELSE IF resp.shape = "zero" THEN ZeroKlines(resp.n)
    ELSE IF resp.shape = "broken" THEN BrokenKlines(resp.n, 2)
    ELSE IF resp.shape = "broken_first" THEN BrokenKlines(resp.n, 1)
    ELSE IF resp.shape = "broken_last" THEN BrokenKlines(resp.n, resp.n)
    ELSE <<>>

Responses ==
    { Answer("http_error", "none", 0),
      Answer("json_error", "none", 0),
      Answer("ok", "none", 0),
      Answer("ok", "broken", 3),
      Answer("ok", "ramp", 19),
      Answer("ok", "zero", 20),
      Answer("ok", "wave", 40) }

LongResponses == { Answer("ok", "wave", maxlen - 1), Answer("ok", "wave", maxlen) }

Message(json, k, x, t, fields) ==
    [json |-> json, k |-> k, x |-> x, t |-> t, o |-> fields[1], h |-> fields[2],
     l |-> fields[3], c |-> fields[4], v |-> fields[5]]

UpFields == <<Num(25), Num(40), Num(24), Num(39), Num(2)>>
DownFields == <<Num(25), Num(26), Num(5), Num(6), Num(2)>>

\* The messages the stream may deliver when the newest candle was opened at ts
Messages(ts) ==
    { Message(FALSE, "none", "absent", Missing, <<Missing, Missing, Missing, Missing, Missing>>),
      Message(TRUE, "none", "absent", Missing, <<Missing, Missing, Missing, Missing, Missing>>),
      Message(TRUE, "dict", "absent", Num(ts + 1), UpFields),
      Message(TRUE, "dict", "false", Num(ts + 1), UpFields),
      Message(TRUE, "dict", "true", Num(ts + 1), <<Num(25), Missing, Num(24), Num(39), Num(2)>>),
      Message(TRUE, "dict", "true", Num(ts + 1), <<Num(25), Num(40), Num(24), Bad, Num(2)>>),
      Message(TRUE, "dict", "true", Num(ts + 1), UpFields),
      Message(TRUE, "dict", "true", Num(ts), DownFields) }

(***************************************************************************)
(* The handler's steps.  pc is where the coroutine start() is suspended:   *)
(* "init" (not called yet), "connecting" (websockets.connect), "listen"    *)
(* (async for waits for a message), "send_initial", "send_fib",            *)
(* "send_analysis" (a telegram send is awaited), "backoff" (asyncio.sleep),*)
(* "done" (start returned True), "failed" (start returned False).          *)
(***************************************************************************)
Suspended == {"connecting", "listen", "send_initial", "send_fib", "send_analysis", "backoff"}

Ev(op, class) == [op |-> op, class |-> class]

PureUnchanged == UNCHANGED <<args, ret>>

\* mutant of MayRetry: the comparison lets one more retry through
MayRetry_OneMore(attempts) == attempts <= max_reconnect_attempts + 1

\* line 255
MayRetry(attempts) == attempts <= max_reconnect_attempts

\* mutant of ReconnectLogic: on exhaustion the counter is reset and the loop
\* goes on instead of stopping
ReconnectLogic_NoStop ==
    IF ~running
    THEN /\ pc' = "done"
         /\ event' = Ev("loop_exit", "stopped")
         /\ UNCHANGED <<running, reconnect_attempts, failures>>
    ELSE /\ pc' = "backoff"
         /\ event' = Ev("failure", "retry")
         /\ reconnect_attempts' = IF MayRetry(reconnect_attempts + 1)
                                  THEN reconnect_attempts + 1 ELSE 1
         /\ failures' = reconnect_attempts'
         /\ UNCHANGED running

\* start_with_reconnect, lines 249-261, once connect_websocket has returned
ReconnectLogic ==
    IF ~running
    THEN /\ pc' = "done"
         /\ event' = Ev("loop_exit", "stopped")
         /\ UNCHANGED <<running, reconnect_attempts, failures>>
    ELSE /\ reconnect_attempts' = reconnect_attempts + 1
         /\ failures' = failures + 1
         /\ IF MayRetry(reconnect_attempts')
            THEN /\ pc' = "backoff"
                 /\ event' = Ev("failure", "retry")
                 /\ UNCHANGED running
            ELSE /\ pc' = "done"
                 /\ event' = Ev("failure", "give_up")
                 /\ running' = FALSE

\* `connected` once ReconnectLogic has run: stop() at line 261 clears it
ConnectedAfter(flag) ==
    IF running /\ ~MayRetry(reconnect_attempts + 1) THEN FALSE ELSE flag

\* perform_analysis on list(buf), then the telegram send of the result if any
\* (lines 158-172 and 210-220); `next` is where the caller goes on.  The clock
\* may tick during the call, between two of its reads.
AnalyseAndNotify(buf, wait, next) ==
    \E tick \in {"none", "before_286", "before_320"} :
        LET t2 == IF tick = "before_286" THEN now + 1 ELSE now
            t3 == IF tick = "none" THEN now ELSE now + 1
            r == perform_analysis(buf, last_update, current_analysis, now, t2, t3)
        IN  /\ tick = "none" \/ (r.result # None /\ now < MaxTime)
            /\ last_update' = r.last_update
            /\ current_analysis' = r.current_analysis
            /\ now' = t3
            /\ IF r.result # None /\ telegram_bot
               THEN pc' = wait /\ sent' = sent + 1
               ELSE pc' = next /\ sent' = sent

\* start(): the bootstrap, then start_with_reconnect up to websockets.connect
Start ==
    /\ pc = "init"
    /\ LET r == fetch_historical_candles(candle_buffer, response.status, Klines(response))
       IN  /\ candle_buffer' = r.buffer
           /\ IF r.ok
              THEN running' = TRUE /\ pc' = "connecting" /\ event' = Ev("start", "ok")
              ELSE running' = running /\ pc' = "failed" /\ event' = Ev("start", "failed")
    /\ UNCHANGED <<connected, reconnect_attempts, telegram_bot, candle, response,
                   last_update, current_analysis, now, sent, live, failures>>
    /\ PureUnchanged

\* websockets.connect raises: lines 231-236, then the reconnect logic
HandshakeFails ==
    /\ pc = "connecting"
    /\ connected' = ConnectedAfter(FALSE)
    /\ ReconnectLogic
    /\ UNCHANGED <<candle_buffer, telegram_bot, candle, response, last_update,
                   current_analysis, now, sent, live>>
    /\ PureUnchanged

\* the call of line 210 is left by an exception
InitialAnalysisEscapes ==
    /\ Len(candle_buffer) >= ANALYSIS_WINDOW
    /\ perform_analysis(candle_buffer, last_update, current_analysis, now, now, now).why
          = "raised"

\* lines 204-205, an exception out of line 210 caught at line 234, and the
\* reconnect logic of lines 249-261 on the counter line 205 has just reset
InitialAnalysisFails ==
    /\ connected' = FALSE
    /\ IF running
       THEN /\ reconnect_attempts' = 1
            /\ failures' = 1
            /\ pc' = "backoff"
       ELSE /\ reconnect_attempts' = 0
            /\ failures' = 0
            /\ pc' = "done"
    /\ event' = Ev("handshake", "analysis_raised")
    /\ UNCHANGED <<last_update, current_analysis, now, sent>>

\* lines 204-220
HandshakeSucceeds ==
    /\ pc = "connecting"
    /\ IF InitialAnalysisEscapes
       THEN InitialAnalysisFails
       ELSE /\ connected' = TRUE
            /\ reconnect_attempts' = 0
            /\ failures' = 0
            /\ event' = Ev("handshake", "ok")
            /\ IF Len(candle_buffer) >= ANALYSIS_WINDOW
               THEN AnalyseAndNotify(candle_buffer, "send_initial", "listen")
               ELSE pc' = "listen" /\ UNCHANGED <<last_update, current_analysis, now, sent>>
    /\ UNCHANGED <<running, candle_buffer, telegram_bot, candle, response, live>>
    /\ PureUnchanged

\* a telegram send of an analysis returns (line 172 or 220)
SendDone ==
    /\ pc \in {"send_initial", "send_analysis"}
    /\ pc' = "listen"
    /\ event' = Ev("send_done", pc)
    /\ UNCHANGED <<running, connected, reconnect_attempts, candle_buffer, telegram_bot,
                   candle, response, last_update, current_analysis, now, sent, live,
                   failures>>
    /\ PureUnchanged

\* lines 154-172: the candle is stored and the analysis gate is consulted
AppendAndAnalyse(c) ==
    /\ candle_buffer' = DequeAppend(candle_buffer, c)
    /\ live' = Append(live, c)
    /\ AnalyseAndNotify(candle_buffer', "send_analysis", "listen")

\* process_websocket_message, up to its first suspension or its end
process_websocket_message(msg) ==
    IF MessageIgnored(msg) \/ MessageRaises(msg)
    THEN /\ pc' = "listen"
         /\ event' = Ev("message", MessageClass(msg))
         /\ UNCHANGED <<candle_buffer, live, candle, last_update, current_analysis,
                        now, sent>>
    ELSE LET c == MessageCandle(msg)
             fib_result == calculate_fibonacci_retracement(
                               candle_buffer[Len(candle_buffer)], c)
         IN  /\ event' = Ev("message", MessageClass(msg))
             /\ IF Len(candle_buffer) > 0 /\ telegram_bot /\ fib_result.range_size > 0
                THEN /\ pc' = "send_fib"
                     /\ candle' = c
                     /\ sent' = sent + 1
                     /\ UNCHANGED <<candle_buffer, live, last_update,
                                    current_analysis, now>>
                ELSE /\ AppendAndAnalyse(c)
                     /\ UNCHANGED candle

\* async for yields a message (lines 223-226)
Receive ==
    /\ pc = "listen"
    /\ running
    /\ Len(candle_buffer) > 0
    /\ \E msg \in Messages(candle_buffer[Len(candle_buffer)].timestamp.val) :
          /\ (MessageIgnored(msg) \/ MessageRaises(msg)
                \/ Len(live) < MaxLive)
          /\ process_websocket_message(msg)
    /\ UNCHANGED <<running, connected, reconnect_attempts, telegram_bot, response, failures>>
    /\ PureUnchanged

\* async for yields a message after stop(): break, connect_websocket returns
ReceiveStopped ==
    /\ pc = "listen"
    /\ ~running
    /\ connected' = ConnectedAfter(connected)
    /\ ReconnectLogic
    /\ UNCHANGED <<candle_buffer, telegram_bot, candle, response, last_update,
                   current_analysis, now, sent, live>>
    /\ PureUnchanged

\* send_realtime_fibonacci returns (line 148): lines 154-172 follow
FibSendDone ==
    /\ pc = "send_fib"
    /\ event' = Ev("send_done", "send_fib")
    /\ AppendAndAnalyse(candle)
    /\ candle' = None
    /\ UNCHANGED <<running, connected, reconnect_attempts, telegram_bot, response, failures>>
    /\ PureUnchanged

\* the iteration raises ConnectionClosed or another exception (lines 228-236)
ConnectionLost ==
    /\ pc = "listen"
    /\ connected' = ConnectedAfter(FALSE)
    /\ ReconnectLogic
    /\ UNCHANGED <<candle_buffer, telegram_bot, candle, response, last_update,
                   current_analysis, now, sent, live>>
    /\ PureUnchanged

\* the peer closes the stream normally: the iteration ends, no handler runs
StreamEnds ==
    /\ pc = "listen"
    /\ connected' = ConnectedAfter(connected)
    /\ ReconnectLogic
    /\ UNCHANGED <<candle_buffer, telegram_bot, candle, response, last_update,
                   current_analysis, now, sent, live>>
    /\ PureUnchanged

\* asyncio.sleep returns (line 258), the loop condition is tested (line 242)
BackoffDone ==
    /\ pc = "backoff"
    /\ pc' = IF running THEN "connecting" ELSE "done"
    /\ event' = Ev("backoff_done", IF running THEN "retry" ELSE "stopped")
    /\ UNCHANGED <<running, connected, reconnect_attempts, candle_buffer, telegram_bot,
                   candle, response, last_update, current_analysis, now, sent, live,
                   failures>>
    /\ PureUnchanged

\* stop(), called by ETHAnalyzerApp.shutdown while start() is suspended or
\* after it has returned
Shutdown ==
    /\ pc \in Suspended \cup {"done", "failed"}
    /\ running' = FALSE
    /\ connected' = FALSE
    /\ event' = Ev("stop", pc)
    /\ UNCHANGED <<reconnect_attempts, candle_buffer, telegram_bot, pc, candle, response,
                   last_update, current_analysis, now, sent, live, failures>>
    /\ PureUnchanged

\* time passes while the coroutine is suspended
Tick ==
    /\ pc \in Suspended
    /\ now < MaxTime
    /\ now' = now + 1
    /\ UNCHANGED <<running, connected, reconnect_attempts, candle_buffer, telegram_bot, pc,
                   candle, response, last_update, current_analysis, sent, live,
                   failures, event>>
    /\ PureUnchanged

InitHandler(responses) ==
    /\ running = FALSE
    /\ connected = FALSE
    /\ reconnect_attempts = 0
    /\ candle_buffer = <<>>
    /\ telegram_bot \in BOOLEAN
    /\ pc = "init"
    /\ candle = None
    /\ response \in responses
    /\ last_update = None
    /\ current_analysis = EmptyAnalysis
    /\ now = 0
    /\ sent = 0
    /\ live = <<>>
    /\ failures = 0
    /\ event = Ev("init", "")
    /\ args = None
    /\ ret = None

Init == InitHandler(Responses)

Next ==
    \/ Start
    \/ HandshakeFails
    \/ HandshakeSucceeds
    \/ SendDone
    \/ Receive
    \/ ReceiveStopped
    \/ FibSendDone
    \/ ConnectionLost
    \/ StreamEnds
    \/ BackoffDone
    \/ Shutdown
    \/ Tick

Spec == Init /\ [][Next]_vars

\* The same handler started on a history that fills the buffer, with the
\* clock standing still and no shutdown request
InitLong == InitHandler(LongResponses)

NextLong ==
    \/ Start
    \/ HandshakeFails
    \/ HandshakeSucceeds
    \/ SendDone
    \/ Receive
    \/ FibSendDone
    \/ ConnectionLost
    \/ StreamEnds
    \/ BackoffDone

SpecLong == InitLong /\ [][NextLong]_vars

\* history: every candle put into candle_buffer so far, in order of arrival
Inserted ==
    (IF pc = "init" THEN <<>> ELSE fetch_historical_candles(<<>>, response.status, Klines(response)).loaded) \o live

(***************************************************************************)
(* Reconnection                                                            *)
(***************************************************************************)
\* C1 as stated: reconnect_attempts never exceeds max_reconnect_attempts.
C1_NeverExceedsMax == reconnect_attempts <= max_reconnect_attempts

\* C1 amended: reconnect_attempts never exceeds max_reconnect_attempts + 1, and
\* it exceeds max_reconnect_attempts only once the loop has given up (stop()
\* has run and start_with_reconnect has returned).
C1_CounterBound ==
    /\ reconnect_attempts \in 0..(max_reconnect_attempts + 1)
    /\ reconnect_attempts > max_reconnect_attempts => ~running /\ ~connected /\ pc = "done"

C1_Witness == reconnect_attempts = max_reconnect_attempts + 1

\* C2: with `failures` the number of times connect_websocket has returned to a
\* running loop since the start or since the last successful handshake (a
\* failed handshake, or the loss of the connection that handshake opened), the
\* loop gives up (stop(), running False, loop left) exactly on failure number
\* max_reconnect_attempts + 1; on every earlier failure it goes to the backoff
\* wait of the next attempt; and once left, the loop never attempts again.
C2_StopsOnSixthFailure ==
    /\ [](/\ event = Ev("failure", "give_up")
                => failures = max_reconnect_attempts + 1 /\ ~running /\ pc = "done"
          /\ event = Ev("failure", "retry")
                => failures \in 1..max_reconnect_attempts /\ pc = "backoff"
          /\ failures > max_reconnect_attempts => ~running /\ pc = "done")
    /\ [][pc = "done" => pc' = "done"]_vars

C2_Witness ==
    /\ event = Ev("failure", "give_up")
    /\ Len(live) > 0

\* What the scheduling guarantees: the event loop resumes a coroutine whose
\* await has completed (a telegram send returns, asyncio.sleep expires, the
\* handshake resolves one way or the other), and, as C3 supposes, every
\* connection is eventually lost.
ConnectionEnds == ConnectionLost \/ StreamEnds \/ ReceiveStopped
HandshakeResolves == HandshakeFails \/ HandshakeSucceeds

FairSpec ==
    /\ Init
    /\ [][Next]_vars
    /\ WF_vars(Start)
    /\ WF_vars(HandshakeResolves)
    /\ WF_vars(SendDone)
    /\ WF_vars(FibSendDone)
    /\ WF_vars(BackoffDone)
    /\ SF_vars(ConnectionEnds)

Stopped == pc \in {"done", "failed"}

\* C3 as stated: whenever every connection is eventually lost, the loop
\* eventually reaches the stopped state.
C3_EventuallyStops == <>Stopped

\* C3 amended: whenever every connection is eventually lost, either the loop
\* eventually reaches the stopped state or handshakes succeed again and again
\* (each success resets reconnect_attempts to 0, so connect / lose / reconnect
\* can go on for ever); with finitely many successful handshakes it stops.
C3_StopsUnlessHandshakesRecur ==
    <>Stopped \/ []<>(event = Ev("handshake", "ok"))

\* the loop gave up after a connection had been established and lost
C3_Witness ==
    /\ event = Ev("failure", "give_up")
    /\ Len(live) > 0
    /\ sent > 0

(***************************************************************************)
(* The candle buffer and the live stream                                   *)
(***************************************************************************)
\* C4: candle_buffer never holds more than maxlen candles, and it is always
\* the last maxlen candles inserted (bootstrap, then live), in arrival order.
C4_BoundedFifo ==
    /\ Len(candle_buffer) <= maxlen
    /\ candle_buffer = LastN(Inserted, maxlen)

\* more than maxlen candles were inserted: the oldest ones are gone
C4_Witness ==
    /\ Len(Inserted) > maxlen
    /\ Len(live) > 0

\* C5: a step that processes a message with no kline object, or with a kline
\* that is not closed, leaves candle_buffer, last_update and current_analysis
\* as they were and hands nothing to the notifier.
C5_OpenTicksIgnored ==
    [][event' \in {Ev("message", "no_kline"), Ev("message", "open")}
          => UNCHANGED <<candle_buffer, live, last_update, current_analysis, sent>>]_vars

\* an open tick was processed while the gate was open, the buffer long enough
\* for an analysis and a notifier attached
C5_Witness ==
    /\ event = Ev("message", "open")
    /\ telegram_bot
    /\ Len(candle_buffer) >= ANALYSIS_WINDOW
    /\ last_update # None
    /\ should_update_analysis(last_update, now)

\* The pipeline of perform_analysis faults on the candles buf: the gate is
\* open, there are enough candles, and one of the steps of lines 269-302 raises
PipelineFaults(buf) ==
    /\ should_update_analysis(last_update, now)
    /\ Len(buf) >= ANALYSIS_WINDOW
    /\ PipelineRaises(buf, analyze_trend_direction(buf, find_swing_points(buf, 10, 10)))

\* C11: when the pipeline faults in the analysis that follows a handshake, the
\* handler is connected and listening afterwards, with no failure counted; when
\* it faults in the analysis that follows the storing of a closed candle, the
\* handler goes back to listening with its connection state and its counters
\* as they were.  Either way the call has returned None: the analyzer's state
\* is untouched and nothing is sent.
C11_FaultStaysInside ==
    /\ [][(pc = "connecting" /\ event'.op = "handshake" /\ PipelineFaults(candle_buffer))
            => /\ connected' /\ pc' = "listen"
               /\ reconnect_attempts' = 0 /\ failures' = 0
               /\ UNCHANGED <<running, last_update, current_analysis, sent>>]_vars
    /\ [][(pc \in {"listen", "send_fib"} /\ live' # live /\ PipelineFaults(candle_buffer'))
            => /\ pc' = "listen"
               /\ UNCHANGED <<running, connected, reconnect_attempts, failures,
                              last_update, current_analysis, sent>>]_vars

\* the pipeline has faulted after the handshake and again on a live candle
\* (the candles of the window start at price 0), and the handler is listening
C11_Witness ==
    /\ response.shape = "zero"
    /\ Len(live) > 0
    /\ PipelineFaults(candle_buffer)
    /\ connected /\ running /\ pc = "listen"
    /\ failures = 0

(***************************************************************************)
(* The analyzer's functions on their own: the inputs are drawn in the      *)
(* initial state, one step applies the function.  The handler does not run.*)
(***************************************************************************)
MaxSwingLen == 5     \* candles handed to find_swing_points
MaxWindow == 2       \* lookback and lookforward
MaxFibPrice == 3     \* prices handed to calculate_fibonacci_retracement
MaxClock == 6        \* the clock of the analyzer on its own

HandlerIdle ==
    /\ running = FALSE
    /\ connected = FALSE
    /\ reconnect_attempts = 0
    /\ candle_buffer = <<>>
    /\ telegram_bot = FALSE
    /\ candle = None
    /\ response = Answer("http_error", "none", 0)
    /\ sent = 0
    /\ live = <<>>
    /\ failures = 0
    /\ event = Ev("init", "")

AnalyzerFresh ==
    /\ last_update = None
    /\ current_analysis = EmptyAnalysis
    /\ now = 0

HandlerUnchanged ==
    UNCHANGED <<running, connected, reconnect_attempts, candle_buffer, telegram_bot, candle,
                response, sent, live, failures, event>>

PlainCandle(h, l) ==
    [timestamp |-> Num(0), open |-> Num(l), high |-> Num(h), low |-> Num(l),
     close |-> Num(h), volume |-> Num(1)]

SwingCandles ==
    { PlainCandle(h, l) : h \in {2, 3}, l \in {0, 1} }
        \cup { [PlainCandle(3, 0) EXCEPT !.high = Bad],
               [PlainCandle(3, 0) EXCEPT !.timestamp = Missing] }

SwingInputs(len, window) ==
    { [fn |-> "find_swing_points", candles |-> cs, lookback |-> lb, lookforward |-> lf] :
        cs \in UNION { [1..n -> SwingCandles] : n \in 0..len },
        lb \in 1..window, lf \in 1..window }

InitSwing ==
    /\ HandlerIdle
    /\ AnalyzerFresh
    /\ pc = "call"
    /\ args \in SwingInputs(MaxSwingLen, MaxWindow)
    /\ ret = None

CallSwing ==
    /\ pc = "call"
    /\ args.fn = "find_swing_points"
    /\ ret' = find_swing_points(args.candles, args.lookback, args.lookforward)
    /\ pc' = "return"
    /\ HandlerUnchanged
    /\ UNCHANGED <<args, last_update, current_analysis, now>>

SpecSwing == InitSwing /\ [][CallSwing]_vars

\* C6: every swing high returned carries the high of the candle at its index,
\* and that high is strictly greater than the high of every other candle of
\* the window [index - lookback, index + lookforward]; likewise, with the low
\* and strictly less, for every swing low returned.  A candidate with an equal
\* neighbour is therefore never returned.
C6_StrictExtremum(points, key, isHigh) ==
    \A k \in 1..Len(points) :
        LET p == points[k]
            others == ((p.index - args.lookback)..(p.index + args.lookforward)) \ {p.index}
        IN  /\ p.index \in 0..(Len(args.candles) - 1)
            /\ IsNum(At(args.candles, p.index)[key])
            /\ p.price = At(args.candles, p.index)[key].val
            /\ \A j \in others :
                  /\ j \in 0..(Len(args.candles) - 1)
                  /\ IsNum(At(args.candles, j)[key])
                  /\ IF isHigh THEN At(args.candles, j)[key].val < p.price
                     ELSE At(args.candles, j)[key].val > p.price

C6_SwingsAreStrict ==
    (pc = "return" /\ args.fn = "find_swing_points")
        => /\ C6_StrictExtremum(ret.swing_highs, "high", TRUE)
           /\ C6_StrictExtremum(ret.swing_lows, "low", FALSE)

\* a swing high and a swing low were returned, and a candidate that ties with
\* a neighbour for the greatest high of its window was not
C6_Witness ==
    /\ pc = "return"
    /\ args.fn = "find_swing_points"
    /\ Len(ret.swing_highs) > 0
    /\ Len(ret.swing_lows) > 0
    /\ \E i \in args.lookback..(Len(args.candles) - args.lookforward - 1) :
          LET w == (i - args.lookback)..(i + args.lookforward)
          IN  /\ \A j \in w : IsNum(At(args.candles, j).high)
              /\ \A j \in w : At(args.candles, j).high.val <= At(args.candles, i).high.val
              /\ \E j \in w \ {i} : At(args.candles, j).high.val = At(args.candles, i).high.val
              /\ \A k \in 1..Len(ret.swing_highs) : ret.swing_highs[k].index # i

\* every candle handed in has a timestamp and a high and a low that parse,
\* as every candle of candle_buffer has
C24_WellFormed ==
    \A k \in 1..Len(args.candles) :
        /\ IsNum(args.candles[k].high)
        /\ IsNum(args.candles[k].low)
        /\ args.candles[k].timestamp.kind # "missing"

\* index i is a candidate whose value under key is strictly beyond that of
\* every other candle of its window
C24_StrictlyBeyond(key, isHigh, i) ==
    /\ i \in args.lookback..(Len(args.candles) - args.lookforward - 1)
    /\ \A j \in ((i - args.lookback)..(i + args.lookforward)) \ {i} :
          IF isHigh THEN At(args.candles, j)[key].val < At(args.candles, i)[key].val
          ELSE At(args.candles, j)[key].val > At(args.candles, i)[key].val

\* the points are reported at candidate indices, in strictly increasing order
C24_Ordered(points) ==
    /\ \A k \in 1..Len(points) :
          points[k].index \in args.lookback..(Len(args.candles) - args.lookforward - 1)
    /\ \A k \in 1..(Len(points) - 1) : points[k].index < points[k + 1].index

\* C24: find_swing_points is complete and ordered.  On well-formed candles
\* every index of [lookback, len - lookforward) whose high is strictly
\* greater than the high of every other candle of [i - lookback,
\* i + lookforward] is in swing_highs, and likewise, with the low and strictly
\* less, in swing_lows; whatever the candles, no index outside that range is
\* reported and each list is in strictly increasing index order, so that its
\* last element is the most recent swing point.
C24_CompleteAndOrdered ==
    (pc = "return" /\ args.fn = "find_swing_points")
        => /\ C24_Ordered(ret.swing_highs)
           /\ C24_Ordered(ret.swing_lows)
           /\ C24_WellFormed
                 => \A i \in 0..(Len(args.candles) - 1) :
                       /\ C24_StrictlyBeyond("high", TRUE, i)
                             => \E k \in 1..Len(ret.swing_highs) :
                                   ret.swing_highs[k].index = i
                       /\ C24_StrictlyBeyond("low", FALSE, i)
                             => \E k \in 1..Len(ret.swing_lows) :
                                   ret.swing_lows[k].index = i

\* five well-formed candles, windows of one candle on either side: the
\* candles at indices 1 and 3 are swing highs, reported in this order, and
\* the candle between them is a swing low
C24_Witness ==
    /\ pc = "return"
    /\ args.fn = "find_swing_points"
    /\ C24_WellFormed
    /\ Len(args.candles) = 5 /\ args.lookback = 1 /\ args.lookforward = 1
    /\ Len(ret.swing_highs) = 2
    /\ ret.swing_highs[1].index = 1 /\ ret.swing_highs[2].index = 3
    /\ Len(ret.swing_lows) = 1 /\ ret.swing_lows[1].index = 2

(***************************************************************************)
(* calculate_fibonacci_retracement on its own                              *)
(***************************************************************************)
FibFields == { Num(v) : v \in 0..MaxFibPrice } \cup {Missing, Bad}

PairCandle(o, h, l, c) ==
    [timestamp |-> Num(0), open |-> o, high |-> h, low |-> l, close |-> c, volume |-> Num(1)]

NumCandle(o, h, l, c) == PairCandle(Num(o), Num(h), Num(l), Num(c))

FibCall(prev, cur) ==
    [fn |-> "calculate_fibonacci_retracement", prev_candle |-> prev, current_candle |-> cur]

\* The scenario of the specification (ratio 8/15), pairs whose ratio lies at
\* equal distance of two levels (59/500, 351/500, 559/1000), pairs near 0.236
\* and 0.786, and pairs beyond both ends of the previous range
FibScenarios ==
    { FibCall(NumCandle(100, 110, 95, 108), NumCandle(0, 107, 102, 0)),
      FibCall(NumCandle(100, 500, 0, 108), NumCandle(0, 490, 441, 0)),
      FibCall(NumCandle(100, 500, 0, 90), NumCandle(0, 351, 300, 0)),
      FibCall(NumCandle(100, 1000, 0, 108), NumCandle(0, 900, 441, 0)),
      FibCall(NumCandle(100, 104, 100, 103), NumCandle(0, 104, 103, 0)),
      FibCall(NumCandle(103, 104, 100, 101), NumCandle(0, 103, 100, 0)),
      FibCall(NumCandle(100, 104, 100, 103), NumCandle(0, 99, 90, 0)),
      FibCall(NumCandle(100, 104, 100, 103), NumCandle(0, 120, 110, 0)) }

FibInputs(fields) ==
    { FibCall(PairCandle(o, h, l, c), PairCandle(Num(0), ch, cl, Num(0))) :
        o \in fields, h \in fields, l \in fields, c \in fields,
        ch \in fields, cl \in fields }
        \cup FibScenarios

InitFib ==
    /\ HandlerIdle
    /\ AnalyzerFresh
    /\ pc = "call"
    /\ args \in FibInputs(FibFields)
    /\ ret = None

CallFib ==
    /\ pc = "call"
    /\ args.fn = "calculate_fibonacci_retracement"
    /\ ret' = calculate_fibonacci_retracement(args.prev_candle, args.current_candle)
    /\ pc' = "return"
    /\ HandlerUnchanged
    /\ UNCHANGED <<args, last_update, current_analysis, now>>

SpecFib == InitFib /\ [][CallFib]_vars

FibReturned == pc = "return" /\ args.fn = "calculate_fibonacci_retracement"

\* the seven levels, in thousandths
C7_Levels == {0, 236, 382, 500, 618, 786, 1000}

\* C7: whatever the two candles hold, fib_level is one of the seven levels
\* and retracement_pct lies in [0, 100].
C7_LevelAndPctInRange ==
    FibReturned
        => /\ ret.fib_level \in C7_Levels
           /\ RatLe(<<0, 1>>, ret.retracement_pct)
           /\ RatLe(ret.retracement_pct, <<100, 1>>)

\* a pair whose unclamped ratio exceeds 1 was answered 100 %
C7_Witness ==
    /\ FibReturned
    /\ IsNum(args.prev_candle.high) /\ IsNum(args.prev_candle.low)
    /\ IsNum(args.current_candle.low)
    /\ args.prev_candle.high.val > args.prev_candle.low.val
    /\ args.current_candle.low.val < args.prev_candle.low.val
    /\ ret.direction = "pullback_after_bullish"
    /\ ret.retracement_pct = <<100, 1>>

FibAllNumeric ==
    /\ \A key \in {"open", "high", "low", "close"} : IsNum(args.prev_candle[key])
    /\ \A key \in {"high", "low"} : IsNum(args.current_candle[key])

AnalyzerInputs ==
    { Answer("ok", "ramp", ANALYSIS_WINDOW - 1), Answer("ok", "ramp", ANALYSIS_WINDOW),
      Answer("ok", "zero", ANALYSIS_WINDOW), Answer("ok", "wave", 2 * ANALYSIS_WINDOW) }

CandlesOf(input) ==
    LET klines == Klines(input)
    IN  [k \in 1..Len(klines) |-> KlineCandle(klines[k])]

\* What the caller has seen so far: the completion time of the last call that
\* returned a snapshot and the time of the last call whose gate was open
NothingSeen == [result |-> None, why |-> "init", stamp |-> None, open_at |-> None]

InitAnalyzer ==
    /\ HandlerIdle
    /\ AnalyzerFresh
    /\ pc = "idle"
    /\ args = [fn |-> "perform_analysis", input |-> Answer("ok", "none", 0), at |-> 0,
               gate |-> FALSE, stamp |-> None, open_at |-> None]
    /\ ret = NothingSeen

\* one call of perform_analysis, the clock possibly advancing inside it
Consult ==
    /\ pc \in {"idle", "consulted"}
    /\ \E input \in AnalyzerInputs, tick \in {"none", "before_286", "before_320"} :
          LET t2 == IF tick = "before_286" THEN now + 1 ELSE now
              t3 == IF tick = "none" THEN now ELSE now + 1
              r == perform_analysis(CandlesOf(input), last_update, current_analysis,
                                    now, t2, t3)
              gate == should_update_analysis(last_update, now)
          IN  /\ tick = "none" \/ (r.result # None /\ now < MaxClock)
              /\ last_update' = r.last_update
              /\ current_analysis' = r.current_analysis
              /\ now' = t3
              /\ args' = [fn |-> "perform_analysis", input |-> input, at |-> now,
                          gate |-> gate, stamp |-> ret.stamp, open_at |-> ret.open_at]
              /\ ret' = [result |-> r.result, why |-> r.why,
                         stamp |-> IF r.result # None THEN Time(t3) ELSE ret.stamp,
                         open_at |-> IF gate THEN Time(now) ELSE ret.open_at]
    /\ pc' = "consulted"
    /\ HandlerUnchanged

TickAnalyzer ==
    /\ pc \in {"idle", "consulted"}
    /\ now < MaxClock
    /\ now' = now + 1
    /\ HandlerUnchanged
    /\ UNCHANGED <<pc, args, ret, last_update, current_analysis>>

NextAnalyzer == Consult \/ TickAnalyzer

SpecAnalyzer == InitAnalyzer /\ [][NextAnalyzer]_vars

Consulted == pc = "consulted" /\ args.fn = "perform_analysis"

\* C9 as stated: the gate is open exactly once per update interval, that is
\* at the first consultation and then at the first consultation at least
\* UPDATE_INTERVAL after the previous consultation at which it was open, and
\* at no other consultation.
C9_OpenOncePerInterval ==
    Consulted
        => (args.gate <=> (args.open_at = None
                             \/ args.at - args.open_at.val >= UPDATE_INTERVAL))

\* C9 amended: the gate is open exactly when no consultation has returned a
\* snapshot yet, or the clock reads at least UPDATE_INTERVAL more than when the
\* last snapshot was completed.  So two consultations that return a snapshot
\* are at least UPDATE_INTERVAL apart and the gate is closed between them,
\* while a consultation that returned None leaves the gate open.
C9_OpenUntilSnapshot ==
    Consulted
        => /\ args.gate <=> (args.stamp = None
                               \/ args.at - args.stamp.val >= UPDATE_INTERVAL)
           /\ (ret.result # None /\ args.stamp # None)
                 => ret.stamp.val - args.stamp.val >= UPDATE_INTERVAL
           /\ ret.result # None => args.gate

\* the gate opens again exactly UPDATE_INTERVAL after a snapshot, and a
\* second snapshot is returned
C9_Witness ==
    /\ Consulted
    /\ args.stamp # None
    /\ args.at - args.stamp.val = UPDATE_INTERVAL
    /\ args.gate
    /\ ret.why = "ok"

\* C10: a call of perform_analysis that returns None, for whichever of its
\* three reasons, leaves last_update and current_analysis as they were; so
\* last_update changes only in a call that returns a snapshot.
C10_NoneLeavesStateAlone ==
    [][(pc' = "consulted" /\ ret'.result = None)
          => UNCHANGED <<last_update, current_analysis>>]_vars

\* the pipeline raised at a call whose gate was open, after an earlier call
\* had stored a snapshot
C10_Witness ==
    /\ Consulted
    /\ ret.why = "error"
    /\ args.gate
    /\ last_update # None
    /\ current_analysis # EmptyAnalysis

(***************************************************************************)
(* Swing detection followed by the trend classifier, on described candle   *)
(* sequences.                                                              *)
(***************************************************************************)
MaxTrendLen == 25    \* candles of a trending or flat sequence

\* a candle that opens at o and closes at c, with wicks of 5
TrendCandle(o, c) ==
    [timestamp |-> Num(0), open |-> Num(o), high |-> Num(Max(o, c) + 5),
     low |-> Num(Min(o, c) - 5), close |-> Num(c), volume |-> Num(1)]

\* a candle of a market whose highs and lows do not move
RangeCandle(c) ==
    [timestamp |-> Num(0), open |-> Num(c), high |-> Num(2000), low |-> Num(500),
     close |-> Num(c), volume |-> Num(1)]

\* a candle that opens and closes at c, with wicks of 5
WaveCandle(c) ==
    [timestamp |-> Num(0), open |-> Num(c), high |-> Num(c + 5), low |-> Num(c - 5),
     close |-> Num(c), volume |-> Num(1)]

\* a candle from 1060 to 1060 whose high and low reach up above a peak's high
\* (1125) and down below a trough's low (995)
EngulfingCandle(up, down) ==
    [timestamp |-> Num(0), open |-> Num(1060), high |-> Num(1125 + up),
     low |-> Num(995 - down), close |-> Num(1060), volume |-> Num(1)]

\* a candle of the sequence "pinch"
PinchCandle(k, n, a) ==
    IF k = n
    THEN [timestamp |-> Num(0), open |-> Num(a), high |-> Num(a), low |-> Num(a),
          close |-> Num(a), volume |-> Num(1)]
    ELSE IF k <= 26
    THEN [timestamp |-> Num(0), open |-> Num(1150), high |-> Num(1200),
          low |-> Num(IF k = 16 THEN 1000 ELSE 1100), close |-> Num(1150), volume |-> Num(1)]
    ELSE [timestamp |-> Num(0), open |-> Num(925),
          high |-> Num(IF k = 41 THEN 1000 ELSE 950), low |-> Num(900),
          close |-> Num(925), volume |-> Num(1)]

\* the candle c with every price p replaced by 2000 - p
MirrorCandle(c) ==
    [c EXCEPT !.open = Num(2000 - c.open.val), !.close = Num(2000 - c.close.val),
              !.high = Num(2000 - c.low.val), !.low = Num(2000 - c.high.val)]

\* A sequence is described by [shape, a, b, n], n its length:
\*   "trend"     close, high and low move by b from candle to candle, from a
\*   "bad_close" a trend whose last close float() rejects
\*   "zero"      n candles of price 0
\*   "flat"      constant highs and lows, every close a but the last, b
\*   "kink"      constant highs and lows, the closes up to index n - 21 are a,
\*               those from index n - 20 on are b
\*   "engulf"    a triangle wave of period 24 shifted by a, between closes
\*               1000 and 1120, then one candle reaching b above the peaks'
\*               highs and b below the troughs' lows
\*   "volume"    the trend from 1000 by 10, the volume of the last 5 candles
\*               b, that of the others a
\*   "breakout"  the triangle wave, then 19 candles at 1060 and a last candle
\*               from 1060 to a; the volume of the last 5 candles is b
\*   "surge"     a triangle wave between closes 1000 and 1360, then 19 candles
\*               at 1000 and a last candle from 1000 to a; the volume of the
\*               last 5 candles is b
\*   "gaps"      candles that follow the triangle wave from close to close,
\*               every a-th of them without a range (open, high, low and
\*               close at the wave's price plus b)
\*   "pinch"     a swing low at 1000 (index 15) in a market between 1100 and
\*               1200, then a swing high at 1000 (index 40) in a market
\*               between 900 and 950, and a last candle that stands at a
\*   "trough"    the pinch with every price p replaced by 2000 - p: a swing
\*               high at index 15, a swing low at index 40, the last
\*               candle at a
\*   "spike"     candles at 1060, the one at index 10 reaching up to 1125
\*               and down to 995, and a last candle that stands at a
Sequence(shape, a, b, n) == [shape |-> shape, a |-> a, b |-> b, n |-> n]

SequenceCandles(d) ==
    IF d.shape = "trend"
    THEN [k \in 1..d.n |-> TrendCandle(d.a + d.b * (k - 1), d.a + d.b * k)]
    ELSE IF d.shape = "bad_close"
    THEN [k \in 1..d.n |-> IF k = d.n THEN [TrendCandle(d.a, d.a) EXCEPT !.close = Bad]
                           ELSE TrendCandle(d.a + d.b * (k - 1), d.a + d.b * k)]
    ELSE IF d.shape = "zero" THEN CandlesOf(Answer("ok", "zero", d.n))
    ELSE IF d.shape = "flat"
    THEN [k \in 1..d.n |-> RangeCandle(IF k = d.n THEN d.b ELSE d.a)]
    ELSE IF d.shape = "kink"
    THEN [k \in 1..d.n |-> RangeCandle(IF k <= d.n - 20 THEN d.a ELSE d.b)]
    ELSE IF d.shape = "engulf"
    THEN [k \in 1..d.n |-> IF k = d.n THEN EngulfingCandle(d.b, d.b)
                           ELSE WaveCandle(1000 + 10 * Tri(k + d.a))]
    ELSE IF d.shape = "volume"
    THEN [k \in 1..d.n |->
            [TrendCandle(1000 + 10 * (k - 1), 1000 + 10 * k)
                EXCEPT !.volume = Num(IF k > d.n - 5 THEN d.b ELSE d.a)]]
    ELSE IF d.shape = "breakout"
    THEN [k \in 1..d.n |->
            [(IF k = d.n THEN TrendCandle(1060, d.a)
              ELSE IF k > d.n - 20 THEN WaveCandle(1060)
              ELSE WaveCandle(1000 + 10 * Tri(k)))
                EXCEPT !.volume = Num(IF k > d.n - 5 THEN d.b ELSE 1)]]
    ELSE IF d.shape = "surge"
    THEN [k \in 1..d.n |->
            [(IF k = d.n THEN TrendCandle(1000, d.a)
              ELSE IF k > d.n - 20 THEN WaveCandle(1000)
              ELSE WaveCandle(1000 + 30 * Tri(k)))
                EXCEPT !.volume = Num(IF k > d.n - 5 THEN d.b ELSE 1)]]
    ELSE IF d.shape = "gaps"
    THEN [k \in 1..d.n |->
            IF k % d.a = 0
            THEN PinchCandle(k, k, 1000 + 10 * Tri(k) + d.b)
            ELSE TrendCandle(1000 + 10 * Tri(k - 1), 1000 + 10 * Tri(k))]
    ELSE IF d.shape = "pinch"
    THEN [k \in 1..d.n |-> PinchCandle(k, d.n, d.a)]
    ELSE IF d.shape = "trough"
    THEN [k \in 1..d.n |-> MirrorCandle(PinchCandle(k, d.n, 2000 - d.a))]
    ELSE IF d.shape = "spike"
    THEN [k \in 1..d.n |-> IF k = d.n THEN PinchCandle(k, k, d.a)
                           ELSE IF k = 11 THEN EngulfingCandle(0, 0)
                           ELSE WaveCandle(1060)]
    ELSE <<>>

TrendInputs(len) ==
    { Sequence("trend", a, b, n) : a \in {1000, 37960}, b \in {-10, 0, 10}, n \in 0..len }
        \cup { Sequence("bad_close", 1000, 10, n) : n \in {5, 20, len} }
        \cup { Sequence("zero", 0, 0, n) : n \in {1, 20, 21} }
        \cup { Sequence("flat", 1000, b, n) :
                 b \in {994, 995, 996, 1000, 1004, 1005, 1006}, n \in {2, 20, 21, len} }
        \cup { Sequence("kink", a, 1900 - a, n) : a \in {900, 1000}, n \in {21, len} }
        \cup { Sequence("engulf", a, b, n) : a \in {0, 12}, b \in {9, 45}, n \in {41, 51} }
        \cup { Sequence("engulf", a, -20, 51) : a \in {0, 12} }
        \cup { Sequence("breakout", a, 1, 51) : a \in {795, 1040, 1070, 1325} }
        \cup { Sequence("pinch", a, 0, n) :
                 a \in {900, 999, 1000, 1001, 1100}, n \in {52, 53} }

InitTrend ==
    /\ HandlerIdle
    /\ AnalyzerFresh
    /\ pc = "call"
    /\ args \in { [fn |-> "analyze_trend_direction"] @@ d : d \in TrendInputs(MaxTrendLen) }
    /\ ret = None

\* lines 269-274 of perform_analysis, and the classifier of the other copy
CallTrend ==
    /\ pc = "call"
    /\ args.fn = "analyze_trend_direction"
    /\ LET candles == SequenceCandles(args)
           swing_data == find_swing_points(candles, 10, 10)
       IN  ret' = [swing_data |-> swing_data,
                   trend |-> analyze_trend_direction(candles, swing_data),
                   logfazla |-> analyze_trend_direction_logfazla(candles)]
    /\ pc' = "return"
    /\ HandlerUnchanged
    /\ UNCHANGED <<args, last_update, current_analysis, now>>

SpecTrend == InitTrend /\ [][CallTrend]_vars

TrendReturned == pc = "return" /\ args.fn = "analyze_trend_direction"

\* a prefix of 21 candles or more of the uptrend of C12
C12_Uptrend == TrendReturned /\ args.shape = "trend" /\ args.b = 10 /\ args.n >= 21

\* the classifier's answer on the prefix one candle shorter
C12_Shorter ==
    LET candles == SequenceCandles([args EXCEPT !.n = args.n - 1])
    IN  analyze_trend_direction(candles, find_swing_points(candles, 10, 10))

\* C12 as stated: on every prefix of 21 candles or more of a sequence whose
\* close, high and low rise by 10 per candle the direction is BULLISH, and
\* the confidence is greater than on the prefix one candle shorter.
C12_UptrendIsBullish ==
    C12_Uptrend
        => /\ ret.trend.direction = "BULLISH"
           /\ args.n > 21 => RatLt(C12_Shorter.confidence, ret.trend.confidence)

\* C12 amended: on such a prefix no swing point is found (no candle is a
\* strict extremum of its window), so the classifier compares the last close
\* with the close 19 candles before it, a rise of 190: WEAK_BULLISH with
\* confidence 60 when that earlier close is below 38000, SIDEWAYS with 70
\* otherwise, whatever the length of the prefix; never BULLISH.  The copy
\* main.py imports answers INSUFFICIENT_DATA with confidence 0.
C12_UptrendIsWeakBullish ==
    C12_Uptrend
        => LET earlier == args.a + 10 * (args.n - 19)
           IN  /\ ret.swing_data.swing_highs = <<>>
               /\ ret.swing_data.swing_lows = <<>>
               /\ ~ret.trend.raised
               /\ earlier < 38000
                     => ret.trend.direction = "WEAK_BULLISH"
                          /\ ret.trend.confidence = <<60, 1>>
               /\ earlier >= 38000
                     => ret.trend.direction = "SIDEWAYS" /\ ret.trend.confidence = <<70, 1>>
               /\ ret.logfazla.direction = "INSUFFICIENT_DATA"
               /\ ret.logfazla.confidence = <<0, 1>>

\* the whole uptrend from 1000, answered WEAK_BULLISH
C12_Witness ==
    /\ C12_Uptrend
    /\ args.a = 1000
    /\ args.n = MaxTrendLen
    /\ ret.trend.direction = "WEAK_BULLISH"

\* fewer candles than one swing window (lookback + lookforward + 1 = 21)
C13_Short == TrendReturned /\ args.n < 21

\* C13 as stated: on fewer than 21 candles find_swing_points returns two empty
\* lists, and the classifier then answers WEAK_BULLISH, WEAK_BEARISH or
\* SIDEWAYS from the percent change, in either copy of the analyzer.
C13_ShortFallsBack ==
    C13_Short
        => /\ ret.swing_data.swing_highs = <<>>
           /\ ret.swing_data.swing_lows = <<>>
           /\ ~ret.trend.raised
           /\ ret.trend.direction \in {"WEAK_BULLISH", "WEAK_BEARISH", "SIDEWAYS"}
           /\ ret.logfazla.direction \in {"WEAK_BULLISH", "WEAK_BEARISH", "SIDEWAYS"}

\* C13 amended: on fewer than 21 candles find_swing_points returns two empty
\* lists whatever the candles hold.  The classifier of simple_analyzer then
\* takes the fallback, which raises when there is no candle at all, when a
\* close does not parse or when the first close is 0, and otherwise answers
\* WEAK_BULLISH 60 for a change of the close above +0.5 %, WEAK_BEARISH 60 for
\* one below -0.5 %, SIDEWAYS 70 in between.  The classifier of
\* simple_analyzer_logfazla answers INSUFFICIENT_DATA 0 without looking.
C13_ShortFallsBackOrRaises ==
    C13_Short
        => LET candles == SequenceCandles(args)
               parses == \A k \in 1..args.n : IsNum(candles[k].close)
               first == candles[1].close.val
               last == candles[args.n].close.val
               fails == args.n = 0 \/ ~parses \/ first = 0
           IN  /\ ret.swing_data.swing_highs = <<>>
               /\ ret.swing_data.swing_lows = <<>>
               /\ ret.trend.raised <=> fails
               /\ ~fails =>
                     /\ 200 * (last - first) > first
                           => ret.trend.direction = "WEAK_BULLISH"
                                /\ ret.trend.confidence = <<60, 1>>
                     /\ 200 * (last - first) < -first
                           => ret.trend.direction = "WEAK_BEARISH"
                                /\ ret.trend.confidence = <<60, 1>>
                     /\ (200 * (last - first) <= first /\ 200 * (last - first) >= -first)
                           => ret.trend.direction = "SIDEWAYS"
                                /\ ret.trend.confidence = <<70, 1>>
               /\ ret.logfazla.direction = "INSUFFICIENT_DATA"
               /\ ret.logfazla.confidence = <<0, 1>>

\* twenty candles of a downtrend, answered from the percent change
C13_Witness ==
    /\ C13_Short
    /\ args.shape = "trend" /\ args.b = -10 /\ args.n = 20
    /\ ret.trend.direction = "WEAK_BEARISH"
    /\ ret.swing_data.swing_lows = <<>>

\* The bootstrap request was answered with a non-empty list of klines all of
\* whose fields parse
BootstrapAnswered ==
    /\ response.status = "ok"
    /\ Len(Klines(response)) > 0
    /\ \A k \in 1..Len(Klines(response)) : ~KlineRaises(Klines(response)[k])

\* C14: start() reaches the connection attempt only after the bootstrap fetch
\* has succeeded; when the fetch fails (HTTP error, undecodable or empty
\* response) start() returns False at once and stays returned: the fetch is
\* not retried, the reconnect loop is not entered (running is never set, the
\* counter never moves) and no connection is attempted.
C14_BootstrapGate ==
    /\ [](pc \notin {"init", "failed"} => BootstrapAnswered)
    /\ [][(pc = "init" /\ ~BootstrapAnswered)
             => /\ pc' = "failed"
                /\ event' = Ev("start", "failed")
                /\ UNCHANGED <<running, connected, reconnect_attempts, candle_buffer,
                               failures>>]_vars
    /\ [][pc = "failed"
             => /\ pc' = "failed"
                /\ ~running' /\ ~connected'
                /\ event'.op \notin {"start", "handshake"}
                /\ UNCHANGED <<reconnect_attempts, candle_buffer, failures, sent>>]_vars

\* an empty response: start() has returned False and stop() has been called
C14_Witness ==
    /\ pc = "failed"
    /\ response = Answer("ok", "none", 0)
    /\ event = Ev("stop", "failed")
    /\ ~running /\ reconnect_attempts = 0 /\ candle_buffer = <<>>

\* C15: whenever an established connection has ended, by an exception or by
\* the peer closing the stream, connected is False once connect_websocket has
\* returned: it is never True while the handler waits to reconnect.
C15_DisconnectedWhileWaiting == pc = "backoff" => ~connected

\* C25: whatever the interleaving of closed candles, disconnections and
\* reconnections, a step that produces a snapshot after an earlier one is
\* taken when the clock reads at least UPDATE_INTERVAL more than at the
\* completion of the earlier one, so that the completion times and the
\* timestamps of two successive snapshots are at least UPDATE_INTERVAL apart;
\* a handshake that succeeds inside the interval leaves the analyzer as it was
\* and sends no notification.
C25_SnapshotsApart ==
    [][/\ (last_update' # last_update \/ current_analysis' # current_analysis)
             => /\ current_analysis'.kind = "snapshot"
                /\ last_update' # None
                /\ last_update # None
                      => /\ now - last_update.val >= UPDATE_INTERVAL
                         /\ last_update'.val - last_update.val >= UPDATE_INTERVAL
                         /\ current_analysis'.timestamp - current_analysis.timestamp
                               >= UPDATE_INTERVAL
       /\ (event'.op = "handshake" /\ pc = "connecting" /\ last_update # None
              /\ now - last_update.val < UPDATE_INTERVAL)
             => UNCHANGED <<last_update, current_analysis, sent>>]_vars

\* a connection that had delivered a candle was lost and a new handshake has
\* succeeded inside the interval of the last snapshot: no new snapshot
C25_Witness ==
    /\ event = Ev("handshake", "ok")
    /\ Len(live) > 0
    /\ Len(candle_buffer) >= ANALYSIS_WINDOW
    /\ last_update # None
    /\ now - last_update.val \in 1..(UPDATE_INTERVAL - 1)
    /\ current_analysis.kind = "snapshot"
    /\ telegram_bot

\* C26: after the bootstrap load and any sequence of live closed candles the
\* timestamps of candle_buffer increase strictly from the oldest candle to
\* the newest: no open time is stored twice and no candle older than the tail
\* is stored after it.
C26_TimestampsIncrease ==
    \A i \in 1..(Len(candle_buffer) - 1) :
        candle_buffer[i].timestamp.val < candle_buffer[i + 1].timestamp.val

\* C29: once stop() has been called (running is False after start() went
\* past the bootstrap) the connected flag stays False, no candle is appended
\* and no analysis is made, whatever start() was suspended at; running False
\* and connected True are never reported together.
C29_StopIsFinal ==
    [][/\ connected' => running'
       /\ ~running /\ pc \in Suspended
             => /\ ~connected'
                /\ candle_buffer' = candle_buffer
                /\ last_update' = last_update
                /\ current_analysis' = current_analysis]_vars

(***************************************************************************)
(* The reconnect wait on its own: start_with_reconnect is suspended in     *)
(* asyncio.sleep(wait_time) at line 258, the clock counts the seconds.     *)
(***************************************************************************)

\* line 256
wait_time(attempts) == Min(60, 5 * attempts)

\* The handler right after line 257: a connection has just failed or ended,
\* the counter has been incremented and allows a retry
InitWait ==
    /\ running = TRUE
    /\ connected \in BOOLEAN
    /\ reconnect_attempts \in 1..max_reconnect_attempts
    /\ failures = reconnect_attempts
    /\ response = Answer("ok", "ramp", 19)
    /\ candle_buffer = fetch_historical_candles(<<>>, response.status, Klines(response)).buffer
    /\ telegram_bot \in BOOLEAN
    /\ pc = "backoff"
    /\ candle = None
    /\ sent = 0
    /\ live = <<>>
    /\ event = Ev("failure", "retry")
    /\ AnalyzerFresh
    /\ args = [fn |-> "asyncio.sleep", wait_time |-> wait_time(reconnect_attempts)]
    /\ ret = None

\* one second of the sleep goes by
WaitTick ==
    /\ pc = "backoff"
    /\ now < args.wait_time
    /\ now' = now + 1
    /\ UNCHANGED <<running, connected, reconnect_attempts, candle_buffer, telegram_bot, pc,
                   candle, response, last_update, current_analysis, sent, live,
                   failures, event>>
    /\ PureUnchanged

\* asyncio.sleep returns once wait_time seconds have gone by; nothing else
\* resumes the coroutine, stop() only assigns two flags (lines 278-280)
WakeUp ==
    /\ now >= args.wait_time
    /\ BackoffDone

NextWait == WaitTick \/ Shutdown \/ WakeUp

SpecWait == InitWait /\ [][NextWait]_vars

\* C16: a pending backoff wait is cancellable: once stop() has been called
\* while start_with_reconnect is suspended in its reconnect wait, the wait can
\* end and the loop exit at once, whatever is left of the backoff time.
C16_StopCutsWaitShort ==
    (pc = "backoff" /\ ~running) => ENABLED WakeUp

\* a stored candle all of whose fields parsed
StoredWellFormed(c) ==
    \A key \in {"timestamp", "open", "high", "low", "close", "volume"} : IsNum(c[key])

\* C17: a record with missing or unparseable fields is skipped on its own and
\* never stored, while the well-formed records around it are stored: no candle
\* of candle_buffer has a field that did not parse, and once the bootstrap
\* response has been read every well-formed kline of it is in the buffer.
C17_BadRecordSkippedAlone ==
    /\ \A i \in 1..Len(candle_buffer) : StoredWellFormed(candle_buffer[i])
    /\ (pc # "init" /\ response.status = "ok")
          => \A k \in 1..Len(Klines(response)) :
                ~KlineRaises(Klines(response)[k])
                   => \E i \in 1..Len(candle_buffer) :
                         candle_buffer[i] = KlineCandle(Klines(response)[k])

\* the classifier was handed a swing high and a swing low and the latest
\* candle reaches above the last swing high and below the last swing low
C19_BothBroken ==
    /\ TrendReturned
    /\ ret.swing_data.swing_highs # <<>>
    /\ ret.swing_data.swing_lows # <<>>
    /\ LET candles == SequenceCandles(args)
           cur == candles[Len(candles)]
           H == ret.swing_data.swing_highs[Len(ret.swing_data.swing_highs)]
           L == ret.swing_data.swing_lows[Len(ret.swing_data.swing_lows)]
       IN  cur.high.val > H.price /\ cur.low.val < L.price

\* What C19 says of the answer, from the confidence `base` of an unbroken level
C19_Answer(base) ==
    LET candles == SequenceCandles(args)
        cur == candles[Len(candles)]
        H == ret.swing_data.swing_highs[Len(ret.swing_data.swing_highs)]
        L == ret.swing_data.swing_lows[Len(ret.swing_data.swing_lows)]
        \* min(90, base + 10 * (|cur - level| / level * 100))
        Expected(current, level) ==
            IF base * level + 1000 * Abs(current - level) >= 90 * level
            THEN <<90, 1>>
            ELSE <<base * level + 1000 * Abs(current - level), level>>
        Same(p, q) == p[1] * q[2] = q[1] * p[2]
    IN  /\ ~ret.trend.raised
        /\ H.index > L.index
              => /\ ret.trend.direction = "BULLISH"
                 /\ Same(ret.trend.confidence, Expected(cur.high.val, H.price))
        /\ H.index <= L.index
              => /\ ret.trend.direction = "BEARISH"
                 /\ Same(ret.trend.confidence, Expected(cur.low.val, L.price))
        /\ args.n >= 50 => ret.logfazla = ret.trend

\* C19 as stated: when the latest candle breaks both the last swing high H and
\* the last swing low L, the answer is BULLISH if H.index > L.index and BEARISH
\* otherwise, with confidence min(90, 70 + distPct * 10) for the winning side.
C19_BothBrokenFrom70 == C19_BothBroken => C19_Answer(70)

\* C19 amended: when the latest candle breaks both H and L, the answer is
\* BULLISH if H.index > L.index and BEARISH otherwise, with confidence
\* min(90, 60 + distPct * 10) for the winning side: the base is 60, not the 70
\* of a single break.  Both copies of the analyzer agree on it.
C19_BothBrokenFrom60 == C19_BothBroken => C19_Answer(60)

\* the swing high is the more recent one and the cap is not reached:
\* 60 + 10 * (9 / 1125 * 100) = 68
C19_Witness ==
    /\ C19_BothBroken
    /\ args.shape = "engulf" /\ args.b = 9 /\ args.n = 51
    /\ ret.trend = Verdict("BULLISH", <<76500, 1125>>)
    /\ ret.logfazla.direction = "BULLISH"

\* the classifier was handed an empty list of swing highs or of swing lows,
\* and at least `least` candles whose closes all parse and are not 0
C20_NoSwing(least) ==
    /\ TrendReturned
    /\ ret.swing_data.swing_highs = <<>> \/ ret.swing_data.swing_lows = <<>>
    /\ args.n >= least
    /\ \A k \in 1..args.n : /\ IsNum(SequenceCandles(args)[k].close)
                             /\ SequenceCandles(args)[k].close.val # 0

\* What C20 says of the answer when the most recent close is compared with
\* the close `back` positions before it (or the first one of a shorter list)
C20_Answer(back) ==
    LET candles == SequenceCandles(args)
        last == candles[args.n].close.val
        earlier == candles[Max(1, args.n - back)].close.val
        \* (last - earlier) / earlier * 100 against 0.5 and -0.5
        up == 200 * (last - earlier) * earlier > earlier * earlier
        down == 200 * (last - earlier) * earlier < -(earlier * earlier)
    IN  /\ ~ret.trend.raised
        /\ up => ret.trend = Verdict("WEAK_BULLISH", <<60, 1>>)
        /\ down => ret.trend = Verdict("WEAK_BEARISH", <<60, 1>>)
        /\ (~up /\ ~down) => ret.trend = Verdict("SIDEWAYS", <<70, 1>>)

\* C20 as stated: with no swing high or no swing low the close of the most
\* recent candle is compared with the close of the candle 20 positions before
\* it (index len-21): above +0.5 % gives (WEAK_BULLISH, 60), below -0.5 %
\* (WEAK_BEARISH, 60), anything in between, the two bounds included,
\* (SIDEWAYS, 70).
C20_ComparesTwentyBack == C20_NoSwing(21) => C20_Answer(20)

\* C20 amended: the close of the most recent candle is compared with the first
\* close of candles[-20:], the candle 19 positions before it (index len-20),
\* or the first candle of a shorter list; the thresholds are as stated.
C20_ComparesNineteenBack == C20_NoSwing(1) => C20_Answer(19)

\* a last close exactly half a percent above the close 19 positions before
C20_Witness ==
    /\ C20_NoSwing(21)
    /\ args.shape = "flat" /\ args.b = 1005 /\ args.n = 21
    /\ ret.trend = Verdict("SIDEWAYS", <<70, 1>>)

\* the classifier was handed a swing high and a swing low, both at a positive
\* price
C21_BothLists ==
    /\ TrendReturned
    /\ ret.swing_data.swing_highs # <<>>
    /\ ret.swing_data.swing_lows # <<>>
    /\ ret.swing_data.swing_highs[Len(ret.swing_data.swing_highs)].price > 0
    /\ ret.swing_data.swing_lows[Len(ret.swing_data.swing_lows)].price > 0

\* C21: with H and L the last swing high and the last swing low (at positive
\* prices) and cur the last candle: cur.high > H.price and cur.low >= L.price
\* gives BULLISH with confidence min(95, 70 + 10 * |cur.high - H.price| /
\* H.price * 100); cur.low < L.price and cur.high <= H.price gives BEARISH with
\* min(95, 70 + 10 * |cur.low - L.price| / L.price * 100); when neither level
\* is broken the answer is SIDEWAYS with max(50, 100 - 100 * |position - 0.5|),
\* position = (cur.close - L.price) / (H.price - L.price), or with 50 when
\* H.price - L.price is not positive.
C21_SingleBreakOrInside ==
    C21_BothLists
        => LET candles == SequenceCandles(args)
               cur == candles[Len(candles)]
               H == ret.swing_data.swing_highs[Len(ret.swing_data.swing_highs)].price
               L == ret.swing_data.swing_lows[Len(ret.swing_data.swing_lows)].price
               Same(p, q) == p[1] * q[2] = q[1] * p[2]
               \* min(95, 70 + 10 * (|current - level| / level * 100))
               Broken(current, level) ==
                   IF 70 * level + 1000 * Abs(current - level) >= 95 * level
                   THEN <<95, 1>>
                   ELSE <<70 * level + 1000 * Abs(current - level), level>>
               \* 100 - 100 * |position - 1/2|, over the denominator 2 * (H - L)
               inside == 200 * (H - L) - 100 * Abs(2 * (cur.close.val - L) - (H - L))
           IN  /\ ~ret.trend.raised
               /\ (cur.high.val > H /\ cur.low.val >= L)
                     => /\ ret.trend.direction = "BULLISH"
                        /\ Same(ret.trend.confidence, Broken(cur.high.val, H))
               /\ (cur.low.val < L /\ cur.high.val <= H)
                     => /\ ret.trend.direction = "BEARISH"
                        /\ Same(ret.trend.confidence, Broken(cur.low.val, L))
               /\ (cur.high.val <= H /\ cur.low.val >= L)
                     => /\ ret.trend.direction = "SIDEWAYS"
                        /\ IF H - L <= 0 \/ inside <= 100 * (H - L)
                           THEN ret.trend.confidence = <<50, 1>>
                           ELSE Same(ret.trend.confidence, <<inside, 2 * (H - L)>>)

\* the last candle stands one above the last swing high, a thousandth of it:
\* 70 + 10 * 0.1 = 71
C21_Witness ==
    /\ C21_BothLists
    /\ args.shape = "pinch" /\ args.a = 1001 /\ args.n = 52
    /\ ret.trend = Verdict("BULLISH", <<71000, 1000>>)

(***************************************************************************)
(* calculate_trend_strength on its own: a list of well-formed candles with *)
(* positive prices and one of the directions the classifier answers.       *)
(***************************************************************************)
Directions == {"BULLISH", "BEARISH", "SIDEWAYS", "WEAK_BULLISH", "WEAK_BEARISH"}

StrengthInputs(len) ==
    { Sequence("trend", 1000, b, n) : b \in {-10, 0, 10}, n \in {0, 19, 20, len} }
        \cup { Sequence("flat", 1000, b, n) : b \in {900, 1006, 1250}, n \in {20, len} }
        \cup { Sequence("volume", a, b, n) :
                 a \in {0, 1, 2}, b \in {0, 1, 2, 10}, n \in {20, len} }
        \cup { Sequence("surge", a, b, 51) : a \in {1000, 1250}, b \in {1, 10} }

InitStrength ==
    /\ HandlerIdle
    /\ AnalyzerFresh
    /\ pc = "call"
    /\ args \in { [fn |-> "calculate_trend_strength", direction |-> dir] @@ d :
                    d \in StrengthInputs(MaxTrendLen), dir \in Directions }
    /\ ret = None

CallStrength ==
    /\ pc = "call"
    /\ args.fn = "calculate_trend_strength"
    /\ ret' = calculate_trend_strength(SequenceCandles(args), args.direction)
    /\ pc' = "return"
    /\ HandlerUnchanged
    /\ UNCHANGED <<args, last_update, current_analysis, now>>

SpecStrength == InitStrength /\ [][CallStrength]_vars

StrengthReturned == pc = "return" /\ args.fn = "calculate_trend_strength"

\* C22 as stated: calculate_trend_strength returns 0 for fewer than 20
\* candles; otherwise the raw strength is clamped into [0, 100] before the
\* dampening by direction, so the result never exceeds 30 for SIDEWAYS nor 70
\* for WEAK_BULLISH and WEAK_BEARISH, and every result lies in [0, 100].
\* (ret is the bracket, in hundredths, that holds the float returned.)
C22_DampenedBelow30And70 ==
    StrengthReturned
        => /\ args.n < ANALYSIS_WINDOW => ret = Bracket(0, 0)
           /\ 0 <= ret.lo /\ ret.hi <= 10000
           /\ args.direction = "SIDEWAYS" => ret.lo <= 3000
           /\ args.direction \in {"WEAK_BULLISH", "WEAK_BEARISH"} => ret.lo <= 7000

\* C22 amended: calculate_trend_strength returns 0 for fewer than 20 candles;
\* otherwise the raw strength min(100, 5 * momentumPct) - min(50, 2 *
\* volatilityPct) + volumeBonus is clamped below at 0 only, then dampened by
\* the direction, and the cap of 100 is applied last.  The raw strength
\* reaches up to 120, so a result lies in [0, 100] and never exceeds 36 for
\* SIDEWAYS nor 84 for WEAK_BULLISH and WEAK_BEARISH (3601 and 8401: the
\* bracket is a hundredth wide on either side of the float).
C22_DampenedBelow36And84 ==
    StrengthReturned
        => /\ args.n < ANALYSIS_WINDOW => ret = Bracket(0, 0)
           /\ 0 <= ret.lo /\ ret.lo <= ret.hi /\ ret.hi <= 10000
           /\ args.direction = "SIDEWAYS" => ret.hi <= 3601
           /\ args.direction \in {"WEAK_BULLISH", "WEAK_BEARISH"} => ret.hi <= 8401

\* a last close 25 % above the 19 closes before it, on rising volume, inside
\* the swing range: the strength of a SIDEWAYS market is above 30
C22_Witness ==
    /\ StrengthReturned
    /\ args.shape = "surge" /\ args.a = 1250 /\ args.b = 10
    /\ args.direction = "SIDEWAYS"
    /\ ret.lo > 3000 /\ ret.hi <= 3400

(***************************************************************************)
(* calculate_average_retracement on its own, on lists of well-formed       *)
(* candles (candle_buffer holds no other).                                 *)
(***************************************************************************)
RetracementInputs(len) ==
    { Sequence("trend", 1000, b, n) : b \in {-10, 0, 10}, n \in {0, 19, 20, len} }
        \cup { Sequence("zero", 0, 0, n) : n \in {19, 20, len} }
        \cup { Sequence("gaps", a, b, n) :
                 a \in {1, 2, 3, 7, 100}, b \in {-8, 0, 3}, n \in {19, 20, 23, len} }
        \cup { Sequence("engulf", a, b, n) : a \in {0, 12}, b \in {9, 45}, n \in {41, 51} }
        \cup { Sequence("breakout", a, 1, 51) : a \in {795, 1070, 1325} }
        \cup { Sequence("pinch", a, 0, 52) : a \in {900, 1000} }

InitRetracement ==
    /\ HandlerIdle
    /\ AnalyzerFresh
    /\ pc = "call"
    /\ args \in { [fn |-> "calculate_average_retracement"] @@ d :
                    d \in RetracementInputs(MaxTrendLen) }
    /\ ret = None

CallRetracement ==
    /\ pc = "call"
    /\ args.fn = "calculate_average_retracement"
    /\ ret' = calculate_average_retracement(SequenceCandles(args))
    /\ pc' = "return"
    /\ HandlerUnchanged
    /\ UNCHANGED <<args, last_update, current_analysis, now>>

SpecRetracement == InitRetracement /\ [][CallRetracement]_vars

RetracementReturned == pc = "return" /\ args.fn = "calculate_average_retracement"

\* the retracement in percent of one pair: (prev.high - current.low) / range
\* after a bullish prev, (current.high - prev.low) / range otherwise, clamped
\* to [0, 1], times 100
C23_Pct(prev, cur) ==
    LET range == prev.high.val - prev.low.val
        raw == IF prev.close.val > prev.open.val THEN prev.high.val - cur.low.val
               ELSE cur.high.val - prev.low.val
    IN  <<100 * (IF raw < 0 THEN 0 ELSE IF raw > range THEN range ELSE raw), range>>

\* C23: on 20 or more well-formed candles calculate_average_retracement
\* looks at the 19 consecutive pairs of the last 20 candles and at no other,
\* drops the pairs whose prev candle has high <= low, reports as sample_size
\* the number of pairs left, as avg_retracement the mean of their
\* retracements in percent and as dominant_fib_level a level that is most
\* frequent among theirs; on fewer than 20 candles, or when no pair is left,
\* it returns avg_retracement 0, dominant_fib_level 0 and sample_size 0.
C23_MeanOfKeptPairs ==
    RetracementReturned
        => LET candles == SequenceCandles(args)
               recent == LastN(candles, 20)
               HasRange(i) == recent[i].high.val > recent[i].low.val
               left == IF args.n < 20 THEN <<>>
                       ELSE SelectSeq([i \in 1..19 |-> i], HasRange)
               pcts == [k \in 1..Len(left) |-> C23_Pct(recent[left[k]], recent[left[k] + 1])]
               levels == [k \in 1..Len(left) |->
                             ClosestFib(<<pcts[k][1], 100 * pcts[k][2]>>)]
               count == [l \in C7_Levels |->
                            Cardinality({k \in 1..Len(left) : levels[k] = l})]
               total == RatSum(pcts)
           IN  IF left = <<>>
               THEN ret = [avg_retracement |-> <<0, 1>>, dominant_fib_level |-> {0},
                           sample_size |-> 0]
               ELSE /\ ret.sample_size = Len(left)
                    /\ ret.avg_retracement[1] * total[2] * Len(left)
                          = total[1] * ret.avg_retracement[2]
                    /\ ret.dominant_fib_level # {}
                    /\ \A d \in ret.dominant_fib_level :
                          /\ count[d] > 0
                          /\ \A l \in C7_Levels : count[d] >= count[l]

\* 25 candles of which every third has no range: of the 19 pairs of the last
\* 20 candles 12 or 13 are left, and their mean is not a whole percent
C23_Witness ==
    /\ RetracementReturned
    /\ args.shape = "gaps" /\ args.a = 3 /\ args.b = 3 /\ args.n = MaxTrendLen
    /\ ret.sample_size \in 12..13
    /\ ret.avg_retracement[2] # 1

(***************************************************************************)
(* fetch_historical_candles on its own: the handler's buffer holds some    *)
(* candles already when the REST request is answered.                      *)
(***************************************************************************)
MaxFetch == 3     \* klines of a short response, candles of a short buffer

\* the buffer before the call: m candles of a rising market
PriorBuffer(m) == CandlesOf(Answer("ok", "ramp", m))

FetchPriors(len) == (0..len) \cup {maxlen - 2, maxlen - 1, maxlen}

FetchResponses(len) ==
    { Answer("http_error", "none", 0), Answer("json_error", "none", 0),
      Answer("ok", "none", 0) }
        \cup { Answer("ok", shape, n) :
                 shape \in {"wave", "zero", "broken_first", "broken", "broken_last"},
                 n \in 2..len }
        \cup { Answer("ok", "wave", 1), Answer("ok", "broken_first", 1) }

InitFetch ==
    /\ running = FALSE
    /\ connected = FALSE
    /\ reconnect_attempts = 0
    /\ telegram_bot = FALSE
    /\ candle = None
    /\ sent = 0
    /\ live = <<>>
    /\ failures = 0
    /\ event = Ev("init", "")
    /\ AnalyzerFresh
    /\ pc = "call"
    /\ args \in { [fn |-> "fetch_historical_candles", prior |-> m] :
                    m \in FetchPriors(MaxFetch) }
    /\ candle_buffer = PriorBuffer(args.prior)
    /\ response \in FetchResponses(MaxFetch)
    /\ ret = None

CallFetch ==
    /\ pc = "call"
    /\ args.fn = "fetch_historical_candles"
    /\ LET r == fetch_historical_candles(candle_buffer, response.status, Klines(response))
       IN  /\ candle_buffer' = r.buffer
           /\ ret' = [kind |-> "bool", val |-> r.ok]
    /\ pc' = "return"
    /\ UNCHANGED <<running, connected, reconnect_attempts, telegram_bot, candle, response,
                   sent, live, failures, event, args, last_update, current_analysis, now>>

SpecFetch == InitFetch /\ [][CallFetch]_vars

FetchReturned == pc = "return" /\ args.fn = "fetch_historical_candles"

\* C30: when fetch_historical_candles returns False (transport or JSON error,
\* empty response, or a kline that fails to parse) candle_buffer is what it
\* was before the call; when it returns True every kline of the response
\* parsed and the buffer is the newest maxlen candles of the old buffer
\* followed by the candles of all klines in response order.
C30_AllOrNothing ==
    FetchReturned
        => LET before == PriorBuffer(args.prior)
               klines == Klines(response)
               all == before \o [k \in 1..Len(klines) |-> KlineCandle(klines[k])]
               kept == Min(Len(all), maxlen)
           IN  IF ret.val
               THEN /\ response.status = "ok"
                    /\ Len(klines) > 0
                    /\ \A k \in 1..Len(klines) : ~KlineRaises(klines[k])
                    /\ Len(candle_buffer) = kept
                    /\ \A i \in 1..kept : candle_buffer[i] = all[Len(all) - kept + i]
               ELSE /\ candle_buffer = before
                    /\ \/ response.status # "ok"
                       \/ Len(klines) = 0
                       \/ \E k \in 1..Len(klines) : KlineRaises(klines[k])

\* a response whose last kline fails to parse leaves a buffer of two candles
\* as it was
C30_Witness ==
    /\ FetchReturned
    /\ args.prior = 2
    /\ response = Answer("ok", "broken_last", MaxFetch)
    /\ ~ret.val
    /\ Len(candle_buffer) = 2

(***************************************************************************)
(* The two copies of the analyzer side by side: a fresh analyzer of each   *)
(* is handed the same list of well-formed candles.                         *)
(***************************************************************************)
TwinInputs(len) ==
    { Sequence("trend", 1000, b, n) : b \in {-10, 0, 10}, n \in {19, 20, len, 49, 50} }
        \cup { Sequence("flat", 1000, b, n) : b \in {900, 1000, 1250}, n \in {20, 49, 50} }
        \cup { Sequence("engulf", a, b, n) :
                 a \in {0, 12}, b \in {-20, 9, 45}, n \in {41, len + 24, 50, 51} }
        \cup { Sequence("volume", a, 10, n) : a \in {1, 2}, n \in {20, 50} }
        \cup { Sequence("breakout", a, b, n) :
                 a \in {795, 1070, 1325}, b \in {1, 10}, n \in {len + 24, 50, 51} }
        \cup { Sequence("surge", a, 10, n) : a \in {1000, 1250}, n \in {len + 24, 51} }

InitTwin ==
    /\ HandlerIdle
    /\ AnalyzerFresh
    /\ pc = "call"
    /\ args \in { [fn |-> "perform_analysis, both copies"] @@ d :
                    d \in TwinInputs(MaxTrendLen) }
    /\ ret = None

CallTwin ==
    /\ pc = "call"
    /\ args.fn = "perform_analysis, both copies"
    /\ LET candles == SequenceCandles(args)
       IN  ret' = [simple_analyzer |->
                      Assessment(candles,
                                 analyze_trend_direction(candles,
                                                         find_swing_points(candles, 10, 10))),
                   simple_analyzer_logfazla |->
                      Assessment(candles, analyze_trend_direction_logfazla(candles))]
    /\ pc' = "return"
    /\ HandlerUnchanged
    /\ UNCHANGED <<args, last_update, current_analysis, now>>

SpecTwin == InitTwin /\ [][CallTwin]_vars

TwinReturned == pc = "return" /\ args.fn = "perform_analysis, both copies"

\* C27 as stated: for every candle list, from the same scheduler state,
\* perform_analysis of simple_analyzer and perform_analysis of
\* simple_analyzer_logfazla report the same direction, confidence and
\* trend_strength, in particular for 20 to 49 candles.
C27_CopiesAgree ==
    TwinReturned => ret.simple_analyzer = ret.simple_analyzer_logfazla

\* C27 amended: the two copies report the same direction, confidence and
\* trend_strength for 50 candles or more, and both return None for fewer than
\* 20.  For 20 to 49 candles simple_analyzer classifies the market (one of the
\* five directions, confidence at least 50) while simple_analyzer_logfazla
\* reports INSUFFICIENT_DATA with confidence 0 and the trend_strength without
\* dampening, which is not below the one simple_analyzer reports.
C27_CopiesAgreeFrom50 ==
    TwinReturned
        => /\ args.n >= 50 => ret.simple_analyzer = ret.simple_analyzer_logfazla
           /\ args.n < ANALYSIS_WINDOW
                 => ret.simple_analyzer = None /\ ret.simple_analyzer_logfazla = None
           /\ args.n \in ANALYSIS_WINDOW..49
                 => /\ ret.simple_analyzer # None
                    /\ ret.simple_analyzer.direction \in Directions
                    /\ ret.simple_analyzer.confidence >= 500
                    /\ ret.simple_analyzer_logfazla # None
                    /\ ret.simple_analyzer_logfazla.direction = "INSUFFICIENT_DATA"
                    /\ ret.simple_analyzer_logfazla.confidence = 0
                    /\ ret.simple_analyzer_logfazla.trend_strength.lo
                          >= ret.simple_analyzer.trend_strength.lo
                    /\ ret.simple_analyzer_logfazla.trend_strength.hi
                          >= ret.simple_analyzer.trend_strength.hi

\* 49 candles whose last one surges inside the swing range on rising volume:
\* SIDEWAYS with a strength near 33 in one copy, INSUFFICIENT_DATA with the
\* strength at its cap in the other
C27_Witness ==
    /\ TwinReturned
    /\ args.shape = "surge" /\ args.a = 1250 /\ args.n = MaxTrendLen + 24
    /\ ret.simple_analyzer.direction = "SIDEWAYS"
    /\ ret.simple_analyzer.trend_strength.hi < 3400
    /\ ret.simple_analyzer_logfazla.direction = "INSUFFICIENT_DATA"
    /\ ret.simple_analyzer_logfazla.trend_strength.lo = 10000

(***************************************************************************)
(* perform_analysis on its own, on a fresh analyzer: the caller hands it   *)
(* one list of well-formed candles with positive prices.                   *)
(***************************************************************************)
SnapshotInputs(len) ==
    { Sequence("trend", 1000, b, n) : b \in {-10, 0, 10}, n \in ANALYSIS_WINDOW..len }
        \cup { Sequence("flat", 1000, b, n) :
                 b \in {900, 995, 1000, 1006, 1250}, n \in {20, 21, len} }
        \cup { Sequence("kink", a, 1900 - a, n) : a \in {900, 1000}, n \in {21, len} }
        \cup { Sequence("engulf", a, b, n) :
                 a \in {0, 6, 12, 18}, b \in {-20, 9, 45}, n \in {41, 51} }
        \cup { Sequence("volume", a, b, n) :
                 a \in {0, 1, 2}, b \in {0, 1, 2, 10}, n \in {20, len} }
        \cup { Sequence("breakout", a, b, n) :
                 a \in {795, 1070, 1325}, b \in {1, 10}, n \in {51, 2 * len + 1} }
        \cup { Sequence("surge", a, b, 51) : a \in {1000, 1250}, b \in {1, 10} }
        \cup { Sequence(shape, a, 0, n) :
                 shape \in {"pinch", "trough"}, a \in {999, 1001}, n \in {51, 52} }
        \cup { Sequence("spike", a, 0, n) : a \in {994, 1060, 1126}, n \in {21, len} }

InitSnapshot ==
    /\ HandlerIdle
    /\ AnalyzerFresh
    /\ pc = "call"
    /\ args \in { [fn |-> "perform_analysis"] @@ d : d \in SnapshotInputs(MaxTrendLen) }
    /\ ret = None

\* perform_analysis(candles) returns one of the dictionaries it may return
CallAnalysis ==
    /\ pc = "call"
    /\ args.fn = "perform_analysis"
    /\ LET candles == SequenceCandles(args)
           snaps == ReturnedSnapshots(candles, last_update, current_analysis, now, now, now)
       IN  IF snaps = {}
           THEN /\ ret' = [kind |-> "none",
                           why |-> perform_analysis(candles, last_update, current_analysis,
                                                    now, now, now).why]
                /\ UNCHANGED <<last_update, current_analysis>>
           ELSE \E snap \in snaps :
                   /\ ret' = snap
                   /\ current_analysis' = snap
                   /\ last_update' = Time(now)
    /\ pc' = "return"
    /\ HandlerUnchanged
    /\ UNCHANGED <<args, now>>

SpecSnapshot == InitSnapshot /\ [][CallAnalysis]_vars

\* perform_analysis has returned a snapshot
SnapshotReturned ==
    pc = "return" /\ args.fn = "perform_analysis" /\ ret.kind = "snapshot"

\* C18: every snapshot perform_analysis returns for 20 or more well-formed
\* candles with positive prices has its direction among the six directions,
\* confidence in [0, 100], trend_strength in [0, 100],
\* avg_fibonacci_retracement in [0, 100] (both rounded to tenths, kept in
\* tenths), dominant_fib_level among the seven levels and sample_size at
\* most 19.
C18_SnapshotInRange ==
    SnapshotReturned
        => /\ ret.direction \in {"BULLISH", "BEARISH", "SIDEWAYS", "WEAK_BULLISH",
                                 "WEAK_BEARISH", "INSUFFICIENT_DATA"}
           /\ ret.confidence \in 0..1000
           /\ ret.trend_strength \in 0..100
           /\ ret.avg_fibonacci_retracement \in 0..1000
           /\ ret.dominant_fib_level \in {fib_levels[k] : k \in 1..Len(fib_levels)}
           /\ ret.sample_size \in 0..(ANALYSIS_WINDOW - 1)

\* a swing low broken on rising volume: the strength reaches its cap
C18_Witness ==
    /\ SnapshotReturned
    /\ args.shape = "breakout" /\ args.a = 795 /\ args.b = 10
    /\ ret.direction = "BEARISH"
    /\ ret.confidence = 950
    /\ ret.trend_strength = 100
    /\ ret.sample_size = 19

\* C28: in every snapshot with swing_points_found, swing_high_age and
\* swing_low_age are at least lookforward (10) and at most len - 1 - lookback
\* (len - 11); when the latest candle broke the last swing high (its high
\* above the swing high's price, direction BULLISH) that swing high is at
\* least 11 candles old, and likewise for a broken swing low and BEARISH.
C28_SwingAges ==
    SnapshotReturned /\ ret.swing_points_found
        => /\ ret.swing_high_age \in 10..(ret.candles_analyzed - 11)
           /\ ret.swing_low_age \in 10..(ret.candles_analyzed - 11)
           /\ ret.current_high > ret.last_swing_high /\ ret.direction = "BULLISH"
                 => ret.swing_high_age >= 11
           /\ ret.current_low < ret.last_swing_low /\ ret.direction = "BEARISH"
                 => ret.swing_low_age >= 11

\* 52 candles whose last one rises above a swing high 11 candles back
C28_Witness ==
    /\ SnapshotReturned
    /\ args.shape = "pinch" /\ args.n = 52
    /\ ret.swing_points_found
    /\ ret.current_high > ret.last_swing_high
    /\ ret.direction = "BULLISH"
    /\ ret.swing_high_age = 11
    /\ ret.swing_low_age = 36

====
